---- MODULE Spec2Model ----
(***************************************************************************)
(* Critical-path scheduling engine of mastr (src/lib/cpm/algorithm.ts).    *)
(*                                                                         *)
(* calculateCPM is a pure function of a task snapshot.  The model draws    *)
(* the snapshot from a bounded family of task lists and applies the        *)
(* function, computed step by step as the TypeScript computes it: JS Maps  *)
(* are functions plus their insertion order, arrays are sequences,         *)
(* Math.max over an empty argument list is -Infinity, and                  *)
(* Math.ceil(duration * (1 - progress / 100)) is evaluated in IEEE-754     *)
(* double precision.                                                       *)
(***************************************************************************)
EXTENDS Integers, Sequences, FiniteSets, TLC

VARIABLES
    tasks,            \* the task list the caller passes to the engine
    pc,               \* where the caller stands
    result,           \* the CPMResult of the call
    completedTask,    \* the task set to "completed" for the second call
    resultCompleted,  \* the CPMResult of the second call
    console,          \* what console.warn has written
    analysis,         \* what analyzeResourceAllocation returned
    kahn,             \* inDegree, queue and sorted of a running topologicalSort
    project,          \* the project row the API handlers read
    response,         \* what an API handler answered
    blockers,         \* the open blocker rows, newest update first
    extraction,       \* the resolvedBlockers the AI extraction returned
    resolutions,      \* the blocker updates one run of the check-in handler made
    activeSessions,   \* the session stored for each guild
    starts,           \* the calls of startVoiceCheckin, where each stands and what it created
    endCalls,         \* the calls of endVoiceCheckin, in the order they were made
    endWork,          \* how often the end-of-session work ran for each session
    bridge,           \* isProcessing, greeting and conversation history of a VoiceBridge
    utterances,       \* the calls of processUtterance and how far each has come
    player,           \* what the audio player of the session is playing
    capture           \* the recording of the user startListening has open

vars == <<tasks, pc, result, completedTask, resultCompleted, console, analysis, kahn,
         project, response,
         blockers, extraction, resolutions,
         activeSessions, starts, endCalls, endWork, bridge, utterances, player, capture>>

voiceVars == <<activeSessions, starts, endCalls, endWork, bridge, utterances, player, capture>>

checkinVars == <<blockers, extraction, resolutions>>

handlerVars == <<project, response>>

(***************************************************************************)
(* Bounds of the input family.                                             *)
(***************************************************************************)
\* ids of the tasks of a snapshot, in input order (a snapshot holds a prefix)
TaskIds == <<"A", "B", "C">>

\* an id that no task of a snapshot carries (a dangling dependency reference)
MissingId == "X"

\* total number of dependency entries in a snapshot
MaxEdges == 3

\* (duration, status, progress) combinations a task is drawn from
TaskProfiles ==
    { [duration |-> 1,  status |-> "not_started", progress |-> 0],
      [duration |-> 2,  status |-> "not_started", progress |-> 0],
      [duration |-> 3,  status |-> "not_started", progress |-> 0],
      [duration |-> 3,  status |-> "completed",   progress |-> 40],
      [duration |-> 10, status |-> "in_progress", progress |-> 70] }

(***************************************************************************)
(* JavaScript numerics.                                                    *)
(***************************************************************************)
\* Math.max(...[]) evaluates to -Infinity: a value below every finite number
NegInfinity == -1000000

IsFinite(x) == x # NegInfinity

SetMax(S) == CHOOSE x \in S : \A y \in S : y <= x

SetMin(S) == CHOOSE x \in S : \A y \in S : x <= y

\* Math.max(...values)
MathMax(S) == IF S = {} THEN NegInfinity ELSE SetMax(S)

\* Math.min(...values), only ever called on a non-empty list
MathMin(S) == SetMin(S)

\* ceiling of a / b for a >= 0, b > 0
CeilDiv(a, b) == (a + b - 1) \div b

\* The (duration, progress) pairs with duration <= 99 and progress in 0..100
\* for which the double product duration * (1 - progress / 100) is strictly
\* greater than the exact integer duration * (100 - progress) / 100, e.g.
\* 10 * (1 - 70 / 100) = 3.0000000000000004.
DoubleProductAboveInteger ==
    { <<10, 70>>, <<20, 70>>, <<20, 85>>, <<20, 95>>, <<25, 44>>, <<25, 72>>,
      <<25, 84>>, <<25, 96>>, <<30, 70>>, <<40, 70>>, <<40, 85>>, <<40, 95>>,
      <<50, 42>>, <<50, 44>>, <<50, 58>>, <<50, 70>>, <<50, 72>>, <<50, 82>>,
      <<50, 84>>, <<50, 86>>, <<50, 94>>, <<50, 96>>, <<50, 98>>, <<60, 70>>,
      <<60, 85>>, <<60, 95>>, <<70, 70>>, <<75, 44>>, <<75, 72>>, <<75, 84>>,
      <<75, 96>>, <<80, 70>>, <<80, 85>>, <<80, 95>>, <<90, 70>> }

\* Math.ceil with the progress taken as a fraction: duration * (1 - progress)
CeilRemaining_ProgressAsFraction(duration, progress) ==
    duration * (1 - progress)

\* Math.ceil(duration * (1 - progress / 100)) in double precision
CeilRemaining(duration, progress) ==
    CeilDiv(duration * (100 - progress), 100)
        + (IF <<duration, progress>> \in DoubleProductAboveInteger THEN 1 ELSE 0)

(***************************************************************************)
(* The engine.                                                             *)
(***************************************************************************)
\* ids of a task list; with unique ids, the key set of every Map built from it
IdsOf(ts) == { ts[i].id : i \in DOMAIN ts }

\* the ids in Map insertion order: a key keeps the place of its first insertion
RECURSIVE KeyOrder(_)
KeyOrder(ids) ==
    IF ids = <<>> THEN <<>>
    ELSE LET front == KeyOrder(SubSeq(ids, 1, Len(ids) - 1))
             last  == ids[Len(ids)]
         IN  IF \E k \in DOMAIN front : front[k] = last THEN front
             ELSE Append(front, last)

\* tasks.map((t) => t.id)
IdSeq(ts) == [ i \in DOMAIN ts |-> ts[i].id ]

\* taskMap.get(id): a later task with the same id overwrites an earlier one
TaskOf(ts, id) ==
    ts[SetMax({ i \in DOMAIN ts : ts[i].id = id })]

\* predecessors.set(t.id, [...t.dependencies])
BuildPredecessors(ts) ==
    [ id \in IdsOf(ts) |-> TaskOf(ts, id).dependencies ]

\* the (dependency, dependent) pairs in the order the second forEach visits them
RECURSIVE DependencyEdges(_)
DependencyEdges(ts) ==
    IF ts = <<>> THEN <<>>
    ELSE LET t == Head(ts)
         IN  [ k \in 1..Len(t.dependencies) |-> <<t.dependencies[k], t.id>> ]
                 \o DependencyEdges(Tail(ts))

\* successors.get(depId).push(t.id), skipped when depId is no task's id
BuildSuccessors(ts) ==
    [ id \in IdsOf(ts) |->
        LET into == SelectSeq(DependencyEdges(ts), LAMBDA e : e[1] = id)
        IN  [ k \in 1..Len(into) |-> into[k][2] ] ]

\* inDegree.get(succId) || 1
DegreeOrOne(inDegree, id) ==
    IF id \in DOMAIN inDegree /\ inDegree[id] # 0 THEN inDegree[id] ELSE 1

\* the loop body without the "- 1": the in-degree of a successor never falls
VisitSuccessor_NoDecrement(st, succId) ==
    LET newDeg == DegreeOrOne(st.inDegree, succId)
    IN  [ st EXCEPT !.queue = IF newDeg = 0 THEN Append(st.queue, succId)
                              ELSE st.queue ]

\* the body of successors.forEach inside the queue loop, for one successor
VisitSuccessor(st, succId) ==
    LET newDeg == DegreeOrOne(st.inDegree, succId) - 1
        degs   == IF succId \in DOMAIN st.inDegree
                  THEN [st.inDegree EXCEPT ![succId] = newDeg]
                  ELSE [ id \in DOMAIN st.inDegree \cup {succId} |->
                           IF id = succId THEN newDeg ELSE st.inDegree[id] ]
    IN  [ st EXCEPT !.inDegree = degs,
                    !.queue = IF newDeg = 0 THEN Append(st.queue, succId)
                              ELSE st.queue ]

RECURSIVE VisitSuccessors(_, _)
VisitSuccessors(st, succs) ==
    IF succs = <<>> THEN st
    ELSE VisitSuccessors(VisitSuccessor(st, Head(succs)), Tail(succs))

\* an iteration that takes the id pushed last instead of the one pushed first
KahnStep_Lifo(st, successors) ==
    LET id == st.queue[Len(st.queue)]
        popped == [ st EXCEPT !.queue = SubSeq(st.queue, 1, Len(st.queue) - 1),
                              !.sorted = Append(st.sorted, id) ]
    IN  VisitSuccessors(popped,
                        IF id \in DOMAIN successors THEN successors[id] ELSE <<>>)

\* one iteration of while (queue.length > 0)
KahnStep(st, successors) ==
    LET id == Head(st.queue)
        popped == [ st EXCEPT !.queue = Tail(st.queue),
                              !.sorted = Append(st.sorted, id) ]
    IN  VisitSuccessors(popped,
                        IF id \in DOMAIN successors THEN successors[id] ELSE <<>>)

RECURSIVE KahnLoop(_, _)
KahnLoop(st, successors) ==
    IF st.queue = <<>> THEN st
    ELSE KahnLoop(KahnStep(st, successors), successors)

\* a seed that also takes the ids with one unmet dependency entry
InitialQueue_DegreeAtMostOne(ts, inDegree) ==
    SelectSeq(KeyOrder(IdSeq(ts)), LAMBDA id : inDegree[id] <= 1)

\* the queue before the loop: the zero in-degree ids in Map order
InitialQueue(ts, inDegree) ==
    SelectSeq(KeyOrder(IdSeq(ts)), LAMBDA id : inDegree[id] = 0)

\* an in-degree that counts only the entries that name a task of the list
InitialInDegree_PresentOnly(ts, predecessors) ==
    [ id \in IdsOf(ts) |->
        Len(SelectSeq(predecessors[id], LAMBDA d : d \in IdsOf(ts))) ]

\* inDegree.set(t.id, (predecessors.get(t.id) || []).length)
InitialInDegree(ts, predecessors) ==
    [ id \in IdsOf(ts) |-> Len(predecessors[id]) ]

\* a sort that returns the placed ids in input order instead of queue order
topologicalSort_InputOrder(ts, predecessors, successors) ==
    LET inDegree == [ id \in IdsOf(ts) |-> Len(predecessors[id]) ]
        start == [ inDegree |-> inDegree,
                   queue    |-> SelectSeq(KeyOrder(IdSeq(ts)),
                                          LAMBDA id : inDegree[id] = 0),
                   sorted   |-> <<>> ]
        placed == KahnLoop(start, successors).sorted
    IN  SelectSeq(KeyOrder(IdSeq(ts)),
                  LAMBDA id : \E k \in DOMAIN placed : placed[k] = id)

topologicalSort(ts, predecessors, successors) ==
    LET inDegree == InitialInDegree(ts, predecessors)
        start == [ inDegree |-> inDegree,
                   queue    |-> InitialQueue(ts, inDegree),
                   sorted   |-> <<>> ]
    IN  KahnLoop(start, successors).sorted

\* nodes.set(id, { ...task, es: 0, ef: 0, ls: 0, lf: 0, float: 0, isCritical: false })
\* the optional fields assigneeId and assigneeName are copied when the task has them
InitialNode(task) ==
    IF "assigneeId" \in DOMAIN task
    THEN [ id           |-> task.id,
           duration     |-> task.duration,
           dependencies |-> task.dependencies,
           status       |-> task.status,
           progress     |-> task.progress,
           assigneeId   |-> task.assigneeId,
           assigneeName |-> task.assigneeName,
           es |-> 0, ef |-> 0, ls |-> 0, lf |-> 0, float |-> 0, isCritical |-> FALSE ]
    ELSE [ id           |-> task.id,
           duration     |-> task.duration,
           dependencies |-> task.dependencies,
           status       |-> task.status,
           progress     |-> task.progress,
           es |-> 0, ef |-> 0, ls |-> 0, lf |-> 0, float |-> 0, isCritical |-> FALSE ]

InitialNodes(ts, sorted) ==
    [ id \in { sorted[k] : k \in DOMAIN sorted } |-> InitialNode(TaskOf(ts, id)) ]

\* an effective duration that does not look at the status
effectiveDurationForward_IgnoresStatus(node) ==
    CeilRemaining(node.duration, node.progress)

\* effectiveDuration as computed inside the forward pass
effectiveDurationForward(node) ==
    IF node.status = "completed" THEN 0
    ELSE CeilRemaining(node.duration, node.progress)

\* effectiveDuration as computed inside the backward pass
effectiveDurationBackward(node) ==
    IF node.status = "completed" THEN 0
    ELSE CeilRemaining(node.duration, node.progress)

\* nodes.get(pId)?.ef ?? 0
EfOrZero(nodes, pId) == IF pId \in DOMAIN nodes THEN nodes[pId].ef ELSE 0

\* the body of the forward pass for one id
ForwardVisit(nodes, predecessors, id) ==
    LET preds == IF id \in DOMAIN predecessors THEN predecessors[id] ELSE <<>>
        es    == IF Len(preds) = 0 THEN 0
                 ELSE MathMax({ EfOrZero(nodes, preds[k]) : k \in DOMAIN preds })
    IN  [ nodes EXCEPT ![id].es = es,
                       ![id].ef = es + effectiveDurationForward(nodes[id]) ]

RECURSIVE ForwardPass(_, _, _)
ForwardPass(nodes, predecessors, order) ==
    IF order = <<>> THEN nodes
    ELSE ForwardPass(ForwardVisit(nodes, predecessors, Head(order)),
                     predecessors, Tail(order))

\* Math.max(...Array.from(nodes.values()).map((n) => n.ef))
\* a project duration taken over the earliest starts
MaxEarliestFinish_OfStarts(nodes) == MathMax({ nodes[id].es : id \in DOMAIN nodes })

MaxEarliestFinish(nodes) == MathMax({ nodes[id].ef : id \in DOMAIN nodes })

\* a default of 0 for a successor without a node
LsOrDefault_Zero(nodes, sId, projectDuration) ==
    IF sId \in DOMAIN nodes THEN nodes[sId].ls ELSE 0

\* nodes.get(sId)?.ls ?? projectDuration
LsOrDefault(nodes, sId, projectDuration) ==
    IF sId \in DOMAIN nodes THEN nodes[sId].ls ELSE projectDuration

\* a backward pass that gives every node the project duration as LF
BackwardVisit_IgnoresSuccessors(nodes, successors, projectDuration, id) ==
    [ nodes EXCEPT ![id].lf = projectDuration,
                   ![id].ls = projectDuration - effectiveDurationBackward(nodes[id]) ]

\* a backward pass that takes the largest LS of the successors
BackwardVisit_MaxOfSuccessors(nodes, successors, projectDuration, id) ==
    LET succs == IF id \in DOMAIN successors THEN successors[id] ELSE <<>>
        lf    == IF Len(succs) = 0 THEN projectDuration
                 ELSE MathMax({ LsOrDefault(nodes, succs[k], projectDuration) :
                                  k \in DOMAIN succs })
    IN  [ nodes EXCEPT ![id].lf = lf,
                       ![id].ls = lf - effectiveDurationBackward(nodes[id]) ]

\* the body of the backward pass for one id
BackwardVisit(nodes, successors, projectDuration, id) ==
    LET succs == IF id \in DOMAIN successors THEN successors[id] ELSE <<>>
        lf    == IF Len(succs) = 0 THEN projectDuration
                 ELSE MathMin({ LsOrDefault(nodes, succs[k], projectDuration) :
                                  k \in DOMAIN succs })
    IN  [ nodes EXCEPT ![id].lf = lf,
                       ![id].ls = lf - effectiveDurationBackward(nodes[id]) ]

RECURSIVE BackwardPass(_, _, _, _)
BackwardPass(nodes, successors, projectDuration, order) ==
    IF order = <<>> THEN nodes
    ELSE BackwardPass(BackwardVisit(nodes, successors, projectDuration, Head(order)),
                      successors, projectDuration, Tail(order))

\* [...sorted].reverse()
Reverse(seq) == [ k \in 1..Len(seq) |-> seq[Len(seq) + 1 - k] ]

\* node.float = node.ls - node.es; node.isCritical = node.float === 0
FloatPass(nodes) ==
    [ id \in DOMAIN nodes |->
        [ nodes[id] EXCEPT !.float = nodes[id].ls - nodes[id].es,
                           !.isCritical = (nodes[id].ls - nodes[id].es = 0) ] ]

\* criticalPath.push(node.id) while nodes.forEach walks the Map in insertion order
CriticalIds(nodes, sorted) ==
    SelectSeq(KeyOrder(sorted), LAMBDA id : nodes[id].isCritical)

\* nodes.get(a)?.es ?? 0
EsOrZero(nodes, id) == IF id \in DOMAIN nodes THEN nodes[id].es ELSE 0

\* an unstable placement: in front of the ids with the same es
InsertByEs_Unstable(nodes, seq, id) ==
    LET behind == { k \in DOMAIN seq : EsOrZero(nodes, seq[k]) < EsOrZero(nodes, id) }
        at     == IF behind = {} THEN 0 ELSE SetMax(behind)
    IN  SubSeq(seq, 1, at) \o <<id>> \o SubSeq(seq, at + 1, Len(seq))

\* the place of one more id in an already sorted array: behind every id whose
\* es is not greater (Array.prototype.sort is stable)
InsertByEs(nodes, seq, id) ==
    LET behind == { k \in DOMAIN seq : EsOrZero(nodes, seq[k]) <= EsOrZero(nodes, id) }
        at     == IF behind = {} THEN 0 ELSE SetMax(behind)
    IN  SubSeq(seq, 1, at) \o <<id>> \o SubSeq(seq, at + 1, Len(seq))

\* criticalPath.sort((a, b) => es(a) - es(b))
RECURSIVE SortByEs(_, _)
SortByEs(nodes, seq) ==
    IF seq = <<>> THEN <<>>
    ELSE InsertByEs(nodes, SortByEs(nodes, SubSeq(seq, 1, Len(seq) - 1)), seq[Len(seq)])

\* console.warn(...) of topologicalSort: a fixed text; names holds the task
\* ids the text contains
CycleWarning ==
    [ text  |-> "Cycle detected in task dependencies. Processing available tasks only.",
      names |-> {} ]

\* if (sorted.length !== tasks.length) console.warn(...)
SortWarnings(ts, sorted) ==
    IF Len(sorted) # Len(ts) THEN <<CycleWarning>> ELSE <<>>

\* what one call of calculateCPM writes to the console
calculateCPMWarnings(ts) ==
    IF Len(ts) = 0 THEN <<>>
    ELSE SortWarnings(ts, topologicalSort(ts, BuildPredecessors(ts), BuildSuccessors(ts)))

\* nodes.set(id, task): the node is the caller's task object itself
TaskAfterCall_Aliased(task, node) == node

\* a task object of the caller after the call: the node is a new object
\* ({ ...task, es: 0, ... }), so the writes to node.es, node.ef, ... miss it
TaskAfterCall(task, node) == task

calculateCPM(ts) ==
    IF Len(ts) = 0
    THEN [ nodes |-> <<>>, criticalPath |-> <<>>, projectDuration |-> 0 ]
    ELSE LET predecessors == BuildPredecessors(ts)
             successors   == BuildSuccessors(ts)
             sorted       == topologicalSort(ts, predecessors, successors)
             forward      == ForwardPass(InitialNodes(ts, sorted), predecessors, sorted)
             projectDuration == MaxEarliestFinish(forward)
             backward     == BackwardPass(forward, successors, projectDuration,
                                          Reverse(sorted))
             nodes        == FloatPass(backward)
         IN  [ nodes           |-> [ k \in 1..Len(sorted) |-> nodes[sorted[k]] ],
               criticalPath    |-> SortByEs(nodes, CriticalIds(nodes, sorted)),
               projectDuration |-> projectDuration ]

(***************************************************************************)
(* The input family and the calls.                                         *)
(***************************************************************************)
\* what a dependency entry of a snapshot of n tasks may name
DepTargets(n) == <<MissingId>> \o SubSeq(TaskIds, 1, n)

\* dependency lists of a snapshot of n tasks: the order of the entries of one
\* list does not reach the result, so one order stands for all of them;
\* repeated entries are kept
DepLists(n) ==
    LET targets == DepTargets(n)
        picks   == UNION { [1..k -> 1..Len(targets)] : k \in 0..MaxEdges }
        ordered == { s \in picks : \A k \in 1..(Len(s) - 1) : s[k] <= s[k + 1] }
    IN  { [ k \in 1..Len(s) |-> targets[s[k]] ] : s \in ordered }

RECURSIVE SumLen(_, _)
SumLen(g, n) == IF n = 0 THEN 0 ELSE Len(g[n]) + SumLen(g, n - 1)

DepGraphs(n) == { g \in [1..n -> DepLists(n)] : SumLen(g, n) <= MaxEdges }

MakeTask(i, profile, deps) ==
    [ id           |-> TaskIds[i],
      duration     |-> profile.duration,
      dependencies |-> deps,
      status       |-> profile.status,
      progress     |-> profile.progress ]

NoResult == [ nodes |-> <<>>, criticalPath |-> <<>>, projectDuration |-> 0 ]

NoAnalysis == [ developerLoad |-> <<>>, recommendations |-> <<>> ]

NoSort == [ inDegree |-> <<>>, queue |-> <<>>, sorted |-> <<>> ]

\* the caller's task list after calculateCPM(ts) has returned res
ArgumentAfterCall(ts, res) ==
    [ i \in DOMAIN ts |->
        IF \E k \in DOMAIN res.nodes : res.nodes[k].id = ts[i].id
        THEN TaskAfterCall(ts[i],
                 res.nodes[CHOOSE k \in DOMAIN res.nodes : res.nodes[k].id = ts[i].id])
        ELSE ts[i] ]

\* no project row that matters, no request answered
NoProject == [id |-> "", startDate |-> 0, targetDate |-> <<>>]

NoResponse == [route |-> "", status |-> 0]

HandlerIdle ==
    /\ project = NoProject
    /\ response = NoResponse

\* no blocker row, no extraction, no run of the check-in handler
NoExtraction == [checkInFound |-> FALSE, resolvedBlockers |-> <<>>, blockers |-> <<>>]

CheckinIdle ==
    /\ blockers = <<>>
    /\ extraction = NoExtraction
    /\ resolutions = <<>>

Guilds == {"g1"}

\* the calls of startVoiceCheckin; a session is named by the call that stored it
StartCalls == {1, 2}

NoSession == 0

NotStartedCall ==
    [pc |-> "idle", connection |-> "none", bridgeCreated |-> FALSE,
     greeted |-> FALSE, developerId |-> FALSE]

NoEndWork == [ended |-> 0, transcriptStored |-> 0, checkInSaved |-> 0, processingTriggered |-> 0]

\* a bridge after construction
NewBridge == [isProcessing |-> FALSE, conversationHistory |-> <<>>, greet |-> "not called"]

NoCapture == [open |-> FALSE, heardAgent |-> FALSE]

\* no voice check-in was ever started
VoiceIdle ==
    /\ activeSessions = [g \in Guilds |-> NoSession]
    /\ starts = [s \in StartCalls |-> NotStartedCall]
    /\ endCalls = <<>>
    /\ endWork = [s \in StartCalls |-> NoEndWork]
    /\ bridge = NewBridge
    /\ utterances = <<>>
    /\ player = "idle"
    /\ capture = NoCapture

Init ==
    /\ \E n \in 0..Len(TaskIds) :
         \E g \in DepGraphs(n) :
           \E prof \in [1..n -> TaskProfiles] :
             tasks = [ i \in 1..n |-> MakeTask(i, prof[i], g[i]) ]
    /\ pc = "input"
    /\ result = NoResult
    /\ completedTask = 0
    /\ resultCompleted = NoResult
    /\ console = <<>>
    /\ analysis = NoAnalysis
    /\ kahn = NoSort
    /\ HandlerIdle
    /\ CheckinIdle
    /\ VoiceIdle

\* the caller invokes the engine on the snapshot
Calculate ==
    /\ pc = "input"
    /\ result' = calculateCPM(tasks)
    /\ console' = console \o calculateCPMWarnings(tasks)
    /\ tasks' = ArgumentAfterCall(tasks, result')
    /\ pc' = "done"
    /\ UNCHANGED <<completedTask, resultCompleted, analysis, kahn, handlerVars, checkinVars, voiceVars>>

\* the snapshot with the status of task i set to "completed"
WithCompleted(ts, i) == [ ts EXCEPT ![i].status = "completed" ]

\* the caller invokes the engine again, on the snapshot in which one task
\* that was not completed is now completed and nothing else differs
CalculateCompleted(i) ==
    /\ pc = "done"
    /\ tasks[i].status # "completed"
    /\ completedTask' = i
    /\ resultCompleted' = calculateCPM(WithCompleted(tasks, i))
    /\ console' = console \o calculateCPMWarnings(WithCompleted(tasks, i))
    /\ pc' = "compared"
    /\ UNCHANGED <<tasks, result, analysis, kahn, handlerVars, checkinVars, voiceVars>>

Next ==
    \/ Calculate
    \/ \E i \in DOMAIN tasks : CalculateCompleted(i)

Spec == Init /\ [][Next]_vars

TypeOK ==
    /\ pc \in {"input", "done", "compared", "analyzed", "sorting", "sorted", "responded",
              "processed"}
    /\ completedTask \in 0..Len(tasks)

(***************************************************************************)
(* Vocabulary of the properties: the dependency graph of a snapshot.       *)
(***************************************************************************)
\* the tasks of the snapshot that task id names in its dependency list
DepsIn(ts, id) ==
    LET deps == TaskOf(ts, id).dependencies
    IN  { d \in IdsOf(ts) : \E k \in DOMAIN deps : deps[k] = d }

RECURSIVE DepClosure(_, _, _)
DepClosure(ts, S, n) ==
    IF n = 0 THEN S
    ELSE DepClosure(ts, S \cup UNION { DepsIn(ts, id) : id \in S }, n - 1)

\* the tasks that task id depends on, directly or transitively
Ancestors(ts, id) == DepClosure(ts, DepsIn(ts, id), Len(ts))

OnCycle(ts, id) == id \in Ancestors(ts, id)

CycleTasks(ts) == { id \in IdsOf(ts) : OnCycle(ts, id) }

HasDangling(ts, id) ==
    LET deps == TaskOf(ts, id).dependencies
    IN  \E k \in DOMAIN deps : deps[k] \notin IdsOf(ts)

\* every dependency entry names a task of the snapshot
Closed(ts) == \A id \in IdsOf(ts) : ~HasDangling(ts, id)

NodeIds(res) == { res.nodes[k].id : k \in DOMAIN res.nodes }

NodeOf(res, id) == res.nodes[CHOOSE k \in DOMAIN res.nodes : res.nodes[k].id = id]

\* the effective duration of section 4.2 in exact arithmetic
ExactEffectiveDuration(node) ==
    IF node.status = "completed" THEN 0
    ELSE CeilDiv(node.duration * (100 - node.progress), 100)

(***************************************************************************)
(* C1                                                                      *)
(***************************************************************************)
\* every task lies on a dependency cycle or depends on a task that does, in a
\* snapshot without dangling references and without self-references
NoTaskSchedulable(ts) ==
    /\ Len(ts) > 0
    /\ Closed(ts)
    /\ \A id \in IdsOf(ts) : id \notin DepsIn(ts, id)
    /\ \A id \in IdsOf(ts) :
         OnCycle(ts, id) \/ \E c \in Ancestors(ts, id) : OnCycle(ts, c)

\* C1: for a non-empty task list none of whose tasks can be scheduled,
\* calculateCPM returns nodes = [], criticalPath = [] and projectDuration = 0.
C1_AllCyclicGivesZeroDuration ==
    (pc = "done" /\ NoTaskSchedulable(tasks)) =>
        /\ result.nodes = <<>>
        /\ result.criticalPath = <<>>
        /\ result.projectDuration = 0

(***************************************************************************)
(* C2                                                                      *)
(***************************************************************************)
AcyclicTasks(ts) == IdsOf(ts) \ CycleTasks(ts)

\* a dependency cycle plus at least one task, where the tasks off the cycle
\* neither depend on a cycle task nor are depended on by one
CyclePlusUnrelated(ts) ==
    /\ Closed(ts)
    /\ CycleTasks(ts) # {}
    /\ AcyclicTasks(ts) # {}
    /\ \A a \in AcyclicTasks(ts) : Ancestors(ts, a) \cap CycleTasks(ts) = {}
    /\ \A c \in CycleTasks(ts) : Ancestors(ts, c) \cap AcyclicTasks(ts) = {}

\* C2: for a dependency cycle plus unrelated acyclic tasks the call returns,
\* result.nodes holds exactly the acyclic tasks and projectDuration is finite.
C2_CycleToleranceKeepsAcyclicTasks ==
    (pc = "done" /\ CyclePlusUnrelated(tasks)) =>
        /\ NodeIds(result) = AcyclicTasks(tasks)
        /\ Len(result.nodes) = Cardinality(AcyclicTasks(tasks))
        /\ IsFinite(result.projectDuration)
        /\ result.projectDuration >= 0

\* the call has returned for a two-task cycle next to an unrelated task
C2_Witness ==
    /\ pc = "done"
    /\ CyclePlusUnrelated(tasks)
    /\ Cardinality(CycleTasks(tasks)) = 2
    /\ Len(result.nodes) = 1
    /\ result.projectDuration > 0

(***************************************************************************)
(* C3                                                                      *)
(***************************************************************************)
\* the dependency paths of the scheduled nodes that start at a node without
\* dependencies and end at a node no scheduled node depends on
IsDepOf(res, a, b) ==
    LET deps == NodeOf(res, b).dependencies
    IN  \E k \in DOMAIN deps : deps[k] = a

IsRoot(res, id) == \A a \in NodeIds(res) : ~IsDepOf(res, a, id)

IsSink(res, id) == \A b \in NodeIds(res) : ~IsDepOf(res, id, b)

RootToSinkPaths(res) ==
    { p \in UNION { [1..k -> NodeIds(res)] : k \in 1..Len(res.nodes) } :
        /\ IsRoot(res, p[1])
        /\ IsSink(res, p[Len(p)])
        /\ \A k \in 1..(Len(p) - 1) : IsDepOf(res, p[k], p[k + 1]) }

RECURSIVE PathSum(_, _)
PathSum(weight, p) ==
    IF p = <<>> THEN 0 ELSE weight[Head(p)] + PathSum(weight, Tail(p))

\* weight: the weight of every scheduled node, by id
LongestPath(res, weight) ==
    SetMax({ PathSum(weight, p) : p \in RootToSinkPaths(res) })

ExactDurations(res) ==
    [ id \in NodeIds(res) |-> ExactEffectiveDuration(NodeOf(res, id)) ]

EngineDurations(res) ==
    [ id \in NodeIds(res) |-> effectiveDurationForward(NodeOf(res, id)) ]

\* C3: projectDuration equals the maximum over the root-to-sink dependency
\* paths of the scheduled nodes of the sum of the effective durations
\* (0 if completed, else ceil(duration * (1 - progress / 100))) on the path.
C3_MakespanIsLongestPath ==
    (pc = "done" /\ result.nodes # <<>>) =>
        result.projectDuration = LongestPath(result, ExactDurations(result))

\* what the forward pass does establish: the same equality over the effective
\* durations the engine itself computes
C3_MakespanIsLongestEnginePath ==
    (pc = "done" /\ result.nodes # <<>>) =>
        result.projectDuration = LongestPath(result, EngineDurations(result))

(***************************************************************************)
(* C4                                                                      *)
(***************************************************************************)
\* C4: every node of the result has float >= 0, that is LS >= ES.
C4_FloatNonNegative ==
    (pc = "done") =>
        \A k \in DOMAIN result.nodes :
            /\ result.nodes[k].float >= 0
            /\ result.nodes[k].ls >= result.nodes[k].es

\* a scheduled node one of whose dependents was excluded because it lies on a
\* two-task cycle
C4_Witness ==
    /\ pc = "done"
    /\ \E k \in DOMAIN result.nodes :
         \E c \in CycleTasks(tasks) :
            /\ result.nodes[k].id \in DepsIn(tasks, c)
            /\ c \notin DepsIn(tasks, c)
            /\ c \notin NodeIds(result)
            /\ result.nodes[k].ef > 0
            /\ result.nodes[k].lf = result.projectDuration

(***************************************************************************)
(* C5                                                                      *)
(***************************************************************************)
\* C5: EF = ES + effectiveDuration, LS = LF - effectiveDuration,
\* float = LS - ES and isCritical <=> float = 0 for every node, where
\* effectiveDuration is 0 if completed and ceil(duration * (1 - progress/100))
\* otherwise, the same in both passes.
C5_NodeIdentities ==
    (pc = "done") =>
        \A k \in DOMAIN result.nodes :
            LET n == result.nodes[k]
            IN  /\ n.ef = n.es + ExactEffectiveDuration(n)
                /\ n.ls = n.lf - ExactEffectiveDuration(n)
                /\ n.float = n.ls - n.es
                /\ n.isCritical = (n.float = 0)

\* what holds of every node: the identities over the engine's own effective
\* duration, the same value in both passes
C5_NodeIdentitiesEngineDuration ==
    (pc = "done") =>
        \A k \in DOMAIN result.nodes :
            LET n == result.nodes[k]
            IN  /\ n.ef - n.es = n.lf - n.ls
                /\ n.ef = n.es + effectiveDurationForward(n)
                /\ n.float = n.ls - n.es
                /\ n.isCritical = (n.float = 0)

(***************************************************************************)
(* C6                                                                      *)
(***************************************************************************)
\* C6: setting one task's status to "completed", all else fixed, does not
\* increase projectDuration, and the task's node has EF - ES = 0 whatever its
\* progress is.
C6_CompletingNeverLengthens ==
    (pc = "compared") =>
        /\ resultCompleted.projectDuration <= result.projectDuration
        /\ \A k \in DOMAIN resultCompleted.nodes :
              resultCompleted.nodes[k].id = tasks[completedTask].id =>
                 /\ resultCompleted.nodes[k].status = "completed"
                 /\ resultCompleted.nodes[k].ef - resultCompleted.nodes[k].es = 0

\* completing a scheduled task with a stale progress of 70 shortened the project
C6_Witness ==
    /\ pc = "compared"
    /\ tasks[completedTask].progress = 70
    /\ tasks[completedTask].id \in NodeIds(resultCompleted)
    /\ IsFinite(resultCompleted.projectDuration)
    /\ resultCompleted.projectDuration < result.projectDuration

(***************************************************************************)
(* C7                                                                      *)
(***************************************************************************)
NotStarted(d) == [duration |-> d, status |-> "not_started", progress |-> 0]

\* A(2), B(3, deps [A], completed, progress 40), C(1, deps [A])
ScenarioCompletedB ==
    << MakeTask(1, NotStarted(2), <<>>),
       MakeTask(2, [duration |-> 3, status |-> "completed", progress |-> 40], <<"A">>),
       MakeTask(3, NotStarted(1), <<"A">>) >>

\* C7 as stated: in that scenario effectiveDuration(B) = 0, EF_B = 2,
\* projectDuration = 3 and B is critical with float 0.
C7_CompletedBIsCritical ==
    (pc = "done" /\ tasks = ScenarioCompletedB) =>
        LET B == NodeOf(result, "B")
        IN  /\ B.ef - B.es = 0
            /\ B.lf - B.ls = 0
            /\ B.ef = 2
            /\ result.projectDuration = 3
            /\ B.float = 0
            /\ B.isCritical

\* C7 as amended: in that scenario effectiveDuration(B) = 0, EF_B = 2,
\* projectDuration = 3, and B has LS = LF = 3, float 1 and is not critical;
\* the critical path is [A, C].
C7_CompletedBHasFloatOne ==
    (pc = "done" /\ tasks = ScenarioCompletedB) =>
        LET B == NodeOf(result, "B")
        IN  /\ B.ef - B.es = 0
            /\ B.lf - B.ls = 0
            /\ B.ef = 2
            /\ result.projectDuration = 3
            /\ B.ls = 3 /\ B.lf = 3
            /\ B.float = 1
            /\ ~B.isCritical
            /\ result.criticalPath = <<"A", "C">>

C7_Witness ==
    /\ pc = "done"
    /\ tasks = ScenarioCompletedB
    /\ Len(result.nodes) = 3

(***************************************************************************)
(* C8                                                                      *)
(***************************************************************************)
InputIndex(ts, id) == CHOOSE i \in DOMAIN ts : ts[i].id = id

NodeIndex(res, id) == CHOOSE k \in DOMAIN res.nodes : res.nodes[k].id = id

\* criticalPath lists each critical node once and no other id
ListsCriticalNodes(res) ==
    /\ { res.criticalPath[k] : k \in DOMAIN res.criticalPath }
         = { id \in NodeIds(res) : NodeOf(res, id).isCritical }
    /\ \A i, j \in DOMAIN res.criticalPath :
         i # j => res.criticalPath[i] # res.criticalPath[j]

\* C8 as stated: criticalPath holds exactly the critical ids by ascending ES,
\* equal ES in the order of the input list.
C8_CriticalPathTiesInInputOrder ==
    (pc = "done") =>
        /\ ListsCriticalNodes(result)
        /\ \A i, j \in DOMAIN result.criticalPath :
             i < j =>
               LET a == NodeOf(result, result.criticalPath[i])
                   b == NodeOf(result, result.criticalPath[j])
               IN  \/ a.es < b.es
                   \/ a.es = b.es /\ InputIndex(tasks, a.id) < InputIndex(tasks, b.id)

\* C8 as amended: criticalPath holds exactly the critical ids by ascending ES,
\* equal ES in the order of result.nodes (the topological order).
C8_CriticalPathTiesInNodeOrder ==
    (pc = "done") =>
        /\ ListsCriticalNodes(result)
        /\ \A i, j \in DOMAIN result.criticalPath :
             i < j =>
               LET a == NodeOf(result, result.criticalPath[i])
                   b == NodeOf(result, result.criticalPath[j])
               IN  \/ a.es < b.es
                   \/ a.es = b.es /\ NodeIndex(result, a.id) < NodeIndex(result, b.id)

\* two critical nodes with equal ES that the input lists in the other order
C8_Witness ==
    /\ pc = "done"
    /\ \E i, j \in DOMAIN result.criticalPath :
         /\ i < j
         /\ NodeOf(result, result.criticalPath[i]).es
              = NodeOf(result, result.criticalPath[j]).es
         /\ InputIndex(tasks, result.criticalPath[i])
              > InputIndex(tasks, result.criticalPath[j])

(***************************************************************************)
(* C9                                                                      *)
(***************************************************************************)
\* C9: result.nodes holds one node per scheduled task, each task at most
\* once, and every node comes after the nodes of the tasks it depends on.
C9_NodesInTopologicalOrder ==
    (pc = "done") =>
        /\ \A k \in DOMAIN result.nodes :
             /\ result.nodes[k].id \in IdsOf(tasks)
             /\ LET t == TaskOf(tasks, result.nodes[k].id)
                IN  /\ result.nodes[k].duration = t.duration
                    /\ result.nodes[k].dependencies = t.dependencies
                    /\ result.nodes[k].status = t.status
                    /\ result.nodes[k].progress = t.progress
        /\ \A i, j \in DOMAIN result.nodes :
             i # j => result.nodes[i].id # result.nodes[j].id
        /\ \A i, j \in DOMAIN result.nodes :
             IsDepOf(result, result.nodes[j].id, result.nodes[i].id) => j < i

\* a node placed behind a dependency that the input lists after it
C9_Witness ==
    /\ pc = "done"
    /\ \E i, j \in DOMAIN result.nodes :
         /\ IsDepOf(result, result.nodes[j].id, result.nodes[i].id)
         /\ j < i
         /\ InputIndex(tasks, result.nodes[j].id) > InputIndex(tasks, result.nodes[i].id)

(***************************************************************************)
(* C10                                                                     *)
(***************************************************************************)
\* A(2), B(3, deps [A]), C(1, deps [A]), all not_started with progress 0
ScenarioFork ==
    << MakeTask(1, NotStarted(2), <<>>),
       MakeTask(2, NotStarted(3), <<"A">>),
       MakeTask(3, NotStarted(1), <<"A">>) >>

Timing(n) == <<n.es, n.ef, n.ls, n.lf, n.float, n.isCritical>>

\* C10: in that scenario ES_A=0, EF_A=2; B has ES 2, EF 5, LS 2, LF 5, float 0
\* and is critical; C has ES 2, EF 3, LS 4, LF 5, float 2 and is not critical;
\* projectDuration = 5; criticalPath = [A, B].
C10_ForkScenario ==
    (pc = "done" /\ tasks = ScenarioFork) =>
        /\ NodeOf(result, "A").es = 0
        /\ NodeOf(result, "A").ef = 2
        /\ Timing(NodeOf(result, "B")) = <<2, 5, 2, 5, 0, TRUE>>
        /\ Timing(NodeOf(result, "C")) = <<2, 3, 4, 5, 2, FALSE>>
        /\ result.projectDuration = 5
        /\ result.criticalPath = <<"A", "B">>

C10_Witness ==
    /\ pc = "done"
    /\ tasks = ScenarioFork
    /\ Len(result.nodes) = 3
    /\ result.criticalPath # <<>>

(***************************************************************************)
(* C11                                                                     *)
(***************************************************************************)
\* C11: every node of the result has ES <= EF and LS <= LF.
C11_StartNotAfterFinish ==
    (pc = "done") =>
        \A k \in DOMAIN result.nodes :
            /\ result.nodes[k].es <= result.nodes[k].ef
            /\ result.nodes[k].ls <= result.nodes[k].lf

\* a partly done task behind a dependency: both inequalities are strict
C11_Witness ==
    /\ pc = "done"
    /\ \E k \in DOMAIN result.nodes :
         /\ result.nodes[k].progress = 70
         /\ result.nodes[k].es > 0
         /\ result.nodes[k].es < result.nodes[k].ef
         /\ result.nodes[k].ls < result.nodes[k].lf

(***************************************************************************)
(* C12                                                                     *)
(***************************************************************************)
ExcludedIds(ts, res) == IdsOf(ts) \ NodeIds(res)

\* C12: when the sort cannot place every task, the call returns, and the
\* console holds a diagnostic that names the ids of the excluded tasks.
C12_DiagnosticNamesExcludedTasks ==
    (pc = "done" /\ ExcludedIds(tasks, result) # {}) =>
        \E k \in DOMAIN console : console[k].names = ExcludedIds(tasks, result)

\* what the engine does: it returns, with one warning exactly when a task
\* was excluded, and the warning names no task
C12_WarningWithoutIds ==
    (pc = "done") =>
        /\ (ExcludedIds(tasks, result) # {}) <=> (console = <<CycleWarning>>)
        /\ (ExcludedIds(tasks, result) = {}) <=> (console = <<>>)
        /\ \A k \in DOMAIN console : console[k].names = {}

(***************************************************************************)
(* The resource allocation analyzer.                                       *)
(***************************************************************************)
\* undefined, and every other falsy string
Undefined == ""

Truthy(x) == x # Undefined

\* node.assigneeId, undefined when the node has no such field
AssigneeIdOf(node) ==
    IF "assigneeId" \in DOMAIN node THEN node.assigneeId ELSE Undefined

\* node.assigneeName, undefined when the node has no such field
AssigneeNameOf(node) ==
    IF "assigneeName" \in DOMAIN node THEN node.assigneeName ELSE Undefined

\* the keys of developerLoad in insertion order
DeveloperOrder(res) ==
    LET assigned == SelectSeq(res.nodes, LAMBDA n : Truthy(AssigneeIdOf(n)))
    IN  KeyOrder([ k \in 1..Len(assigned) |-> AssigneeIdOf(assigned[k]) ])

\* a total that adds up what is left of each task instead of its duration
RECURSIVE SumDuration_Remaining(_)
SumDuration_Remaining(nodes) ==
    IF nodes = <<>> THEN 0
    ELSE (Head(nodes).ef - Head(nodes).es) + SumDuration_Remaining(Tail(nodes))

\* existing.totalDuration += node.duration, over the nodes of one developer
RECURSIVE SumDuration(_)
SumDuration(nodes) ==
    IF nodes = <<>> THEN 0 ELSE Head(nodes).duration + SumDuration(Tail(nodes))

\* the entry of developerLoad for one developer after the forEach over the nodes
LoadOf(res, devId) ==
    LET mine == SelectSeq(res.nodes, LAMBDA n : AssigneeIdOf(n) = devId)
    IN  [ developerId   |-> devId,
          name          |-> IF Truthy(AssigneeNameOf(mine[1]))
                            THEN AssigneeNameOf(mine[1]) ELSE "Unknown",
          tasks         |-> Len(mine),
          criticalTasks |-> Len(SelectSeq(mine, LAMBDA n : n.isCritical)),
          totalDuration |-> SumDuration(mine) ]

\* a threshold of more than three critical tasks
HasManyCriticalTasks_MoreThanThree(load) == load.criticalTasks > 3

\* load.criticalTasks >= 3
HasManyCriticalTasks(load) == load.criticalTasks >= 3

\* The (totalDuration, projectDuration) pairs up to 300 with
\* 10 * totalDuration = 7 * projectDuration for which the double product
\* projectDuration * 0.7 lies below totalDuration: 90 * 0.7 = 62.99999999999999
SeventyPercentBelowInteger == { <<63, 90>>, <<119, 170>>, <<126, 180>> }

\* load.totalDuration > result.projectDuration * 0.7 in double precision
ExceedsSeventyPercent(totalDuration, projectDuration) ==
    \/ 10 * totalDuration > 7 * projectDuration
    \/ <<totalDuration, projectDuration>> \in SeventyPercentBelowInteger

\* the template literals, as the sequence of their pieces
CriticalRecommendation(load) ==
    << load.name, " (", load.developerId, ") has ", ToString(load.criticalTasks),
       " critical tasks. Consider redistributing to reduce risk." >>

OverloadRecommendation(load) ==
    << load.name, " is assigned ", ToString(load.totalDuration),
       " days of work across ", ToString(load.tasks),
       " tasks. This exceeds 70% of the project timeline." >>

\* the body of developerLoad.forEach for one developer
RecommendationsFor(load, projectDuration) ==
    (IF HasManyCriticalTasks(load) THEN <<CriticalRecommendation(load)>> ELSE <<>>)
      \o (IF ExceedsSeventyPercent(load.totalDuration, projectDuration)
          THEN <<OverloadRecommendation(load)>> ELSE <<>>)

RECURSIVE AllRecommendations(_, _)
AllRecommendations(loads, projectDuration) ==
    IF loads = <<>> THEN <<>>
    ELSE RecommendationsFor(Head(loads), projectDuration)
           \o AllRecommendations(Tail(loads), projectDuration)

analyzeResourceAllocation(res) ==
    LET order == DeveloperOrder(res)
        loads == [ k \in 1..Len(order) |-> LoadOf(res, order[k]) ]
    IN  [ developerLoad   |-> loads,
          recommendations |-> AllRecommendations(loads, res.projectDuration) ]

\* the CPMResult of the caller after the analysis: the load objects the
\* analyzer counts in are created inside the call, no node is written
ResultAfterAnalysis(res) == res

(***************************************************************************)
(* The calls of the API handler: calculateCPM, then the analyzer, on       *)
(* snapshots with assignees.                                               *)
(***************************************************************************)
\* developer ids with the name the storage layer has for them (one has none)
Developers == { [id |-> "dev1", name |-> "Ada"], [id |-> "dev2", name |-> Undefined] }

Assignees == Developers \cup { [id |-> Undefined, name |-> Undefined] }

AnalysisProfiles ==
    { [duration |-> 3,  status |-> "completed",   progress |-> 40],
      [duration |-> 27, status |-> "not_started", progress |-> 0],
      [duration |-> 63, status |-> "not_started", progress |-> 0] }

\* snapshots in which a task has at most one dependency entry
AnalysisGraphs(n) == { g \in DepGraphs(n) : \A i \in 1..n : Len(g[i]) <= 1 }

MakeAssignedTask(i, profile, deps, assignee) ==
    [ id           |-> TaskIds[i],
      duration     |-> profile.duration,
      dependencies |-> deps,
      status       |-> profile.status,
      progress     |-> profile.progress,
      assigneeId   |-> assignee.id,
      assigneeName |-> assignee.name ]

InitAnalysis ==
    /\ \E n \in 0..Len(TaskIds) :
         \E g \in AnalysisGraphs(n) :
           \E prof \in [1..n -> AnalysisProfiles] :
             \E who \in [1..n -> Assignees] :
               tasks = [ i \in 1..n |-> MakeAssignedTask(i, prof[i], g[i], who[i]) ]
    /\ pc = "input"
    /\ result = NoResult
    /\ completedTask = 0
    /\ resultCompleted = NoResult
    /\ console = <<>>
    /\ analysis = NoAnalysis
    /\ kahn = NoSort
    /\ HandlerIdle
    /\ CheckinIdle
    /\ VoiceIdle

\* the handler passes the result of the engine to the analyzer
Analyze ==
    /\ pc = "done"
    /\ analysis' = analyzeResourceAllocation(result)
    /\ result' = ResultAfterAnalysis(result)
    /\ pc' = "analyzed"
    /\ UNCHANGED <<tasks, completedTask, resultCompleted, console, kahn, handlerVars, checkinVars, voiceVars>>

NextAnalysis ==
    \/ Calculate
    \/ Analyze

SpecAnalysis == InitAnalysis /\ [][NextAnalysis]_vars

NodesOfDeveloper(res, devId) ==
    { k \in DOMAIN res.nodes : AssigneeIdOf(res.nodes[k]) = devId }

RECURSIVE DurationOver(_, _)
DurationOver(res, S) ==
    IF S = {} THEN 0
    ELSE LET k == CHOOSE x \in S : TRUE
         IN  res.nodes[k].duration + DurationOver(res, S \ {k})

\* C16: the analyzer produces one load entry per distinct assigneeId among
\* result.nodes and none for unassigned nodes; tasks is the number of the
\* assignee's nodes, criticalTasks the number of them that are critical, and
\* totalDuration the sum of their input durations.
C16_LoadEntries ==
    pc = "analyzed" =>
        LET loads == analysis.developerLoad
        IN  /\ { loads[k].developerId : k \in DOMAIN loads }
                 = { AssigneeIdOf(result.nodes[k]) : k \in DOMAIN result.nodes } \ {Undefined}
            /\ \A j, k \in DOMAIN loads :
                 loads[j].developerId = loads[k].developerId => j = k
            /\ \A k \in DOMAIN loads :
                 LET mine == NodesOfDeveloper(result, loads[k].developerId)
                 IN  /\ loads[k].tasks = Cardinality(mine)
                     /\ loads[k].criticalTasks
                          = Cardinality({ n \in mine : result.nodes[n].isCritical })
                     /\ loads[k].totalDuration = DurationOver(result, mine)

\* two developers and an unassigned node; one developer has a completed task,
\* so that the input durations add up to more than what is left to do, and
\* one has a critical task
C16_Witness ==
    /\ pc = "analyzed"
    /\ Len(analysis.developerLoad) = 2
    /\ \E k \in DOMAIN result.nodes : AssigneeIdOf(result.nodes[k]) = Undefined
    /\ \E k \in DOMAIN analysis.developerLoad :
         LET load == analysis.developerLoad[k]
         IN  /\ load.totalDuration > 0
             /\ \A n \in NodesOfDeveloper(result, load.developerId) :
                  result.nodes[n].ef = result.nodes[n].es
    /\ \E k \in DOMAIN analysis.developerLoad :
         analysis.developerLoad[k].criticalTasks >= 1

(***************************************************************************)
(* C17: the critical-load recommendation.                                  *)
(***************************************************************************)
Recommended(text) ==
    \E k \in DOMAIN analysis.recommendations : analysis.recommendations[k] = text

\* C17 as stated: the critical-load recommendation is emitted exactly for the
\* assignees with three or more critical tasks, and its text is
\* "<name> has <criticalTaskCount> critical tasks. Consider redistributing
\* to reduce risk." with nothing else inserted.
C17_CriticalTextNameAndCount ==
    pc = "analyzed" =>
        \A k \in DOMAIN analysis.developerLoad :
            LET load == analysis.developerLoad[k]
            IN  Recommended(<< load.name, " has ", ToString(load.criticalTasks),
                               " critical tasks. Consider redistributing to reduce risk." >>)
                  <=> load.criticalTasks >= 3

\* C17 amended: the critical-load recommendation is emitted exactly for the
\* assignees with three or more critical tasks, and its text is
\* "<name> (<developerId>) has <criticalTaskCount> critical tasks. Consider
\* redistributing to reduce risk.": the developer id follows the name, in
\* parentheses.
C17_CriticalTextWithDeveloperId ==
    pc = "analyzed" =>
        \A k \in DOMAIN analysis.developerLoad :
            LET load == analysis.developerLoad[k]
            IN  Recommended(<< load.name, " (", load.developerId, ") has ",
                               ToString(load.criticalTasks),
                               " critical tasks. Consider redistributing to reduce risk." >>)
                  <=> load.criticalTasks >= 3

\* a developer with three critical tasks has received the recommendation
C17_Witness ==
    /\ pc = "analyzed"
    /\ \E k \in DOMAIN analysis.developerLoad :
         /\ analysis.developerLoad[k].criticalTasks = 3
         /\ Recommended(CriticalRecommendation(analysis.developerLoad[k]))

(***************************************************************************)
(* C18: the overload recommendation.                                       *)
(***************************************************************************)
OverloadText(load) ==
    << load.name, " is assigned ", ToString(load.totalDuration), " days of work across ",
       ToString(load.tasks), " tasks. This exceeds 70% of the project timeline." >>

\* C18: the overload recommendation is emitted for an assignee exactly when
\* 10 * totalDuration > 7 * projectDuration, whatever the critical-task rule
\* gave; in particular when projectDuration is 0 and the total is positive.
C18_OverloadIffAboveSeventyPercent ==
    pc = "analyzed" =>
        \A k \in DOMAIN analysis.developerLoad :
            LET load == analysis.developerLoad[k]
            IN  Recommended(OverloadText(load))
                  <=> 10 * load.totalDuration > 7 * result.projectDuration

\* What the code guarantees: the rule is the comparison in double precision,
\* it does not depend on the critical-task rule, and a positive total
\* exceeds a project duration of 0.
C18_OverloadIffAboveDoubleProduct ==
    pc = "analyzed" =>
        \A k \in DOMAIN analysis.developerLoad :
            LET load == analysis.developerLoad[k]
            IN  /\ Recommended(OverloadText(load))
                     <=> ExceedsSeventyPercent(load.totalDuration, result.projectDuration)
                /\ (result.projectDuration = 0 /\ load.totalDuration > 0)
                     => Recommended(OverloadText(load))

(***************************************************************************)
(* The queue loop of topologicalSort, one iteration per step.              *)
(***************************************************************************)
KahnTasks ==
    UNION { { [ i \in 1..n |-> MakeTask(i, prof[i], g[i]) ] :
                g \in DepGraphs(n), prof \in [1..n -> {NotStarted(1), NotStarted(2)}] } :
            n \in 0..Len(TaskIds) }

InitKahn ==
    /\ tasks \in KahnTasks
    /\ pc = "input"
    /\ result = NoResult
    /\ completedTask = 0
    /\ resultCompleted = NoResult
    /\ console = <<>>
    /\ analysis = NoAnalysis
    /\ kahn = NoSort
    /\ HandlerIdle
    /\ CheckinIdle
    /\ VoiceIdle

\* the statements before the loop: in-degrees and the initial queue
KahnStart ==
    /\ pc = "input"
    /\ LET inDegree == InitialInDegree(tasks, BuildPredecessors(tasks))
       IN  kahn' = [ inDegree |-> inDegree,
                     queue    |-> InitialQueue(tasks, inDegree),
                     sorted   |-> <<>> ]
    /\ pc' = "sorting"
    /\ UNCHANGED <<tasks, result, completedTask, resultCompleted, console, analysis, handlerVars, checkinVars, voiceVars>>

\* while (queue.length > 0) { ... }
KahnIterate ==
    /\ pc = "sorting"
    /\ kahn.queue # <<>>
    /\ kahn' = KahnStep(kahn, BuildSuccessors(tasks))
    /\ UNCHANGED <<tasks, pc, result, completedTask, resultCompleted, console, analysis, handlerVars, checkinVars, voiceVars>>

\* the loop is left with an empty queue; the warning and the return
KahnReturn ==
    /\ pc = "sorting"
    /\ kahn.queue = <<>>
    /\ console' = console \o SortWarnings(tasks, kahn.sorted)
    /\ pc' = "sorted"
    /\ UNCHANGED <<tasks, kahn, result, completedTask, resultCompleted, analysis, handlerVars, checkinVars, voiceVars>>

NextKahn ==
    \/ KahnStart
    \/ KahnIterate
    \/ KahnReturn

\* the call runs on one thread without suspension points: a statement that
\* can execute does execute
SpecKahn == InitKahn /\ [][NextKahn]_vars /\ WF_vars(NextKahn)

(***************************************************************************)
(* C15: termination.                                                       *)
(***************************************************************************)
\* every id that was ever pushed to the queue, in push order
Enqueued == kahn.sorted \o kahn.queue

\* C15: for every task list with unique ids, with or without cycles,
\* self-references, repeated dependency entries and references to missing
\* ids, no id is pushed to the queue twice, and the loop is left.
C15_SortTerminates ==
    /\ [](\A j, k \in DOMAIN Enqueued : Enqueued[j] = Enqueued[k] => j = k)
    /\ <>(pc = "sorted")

\* the loop was left on a snapshot with a cycle, a reference to a missing id
\* and a placed task, and the result agrees with the sort of calculateCPM
C15_Witness ==
    /\ pc = "sorted"
    /\ CycleTasks(tasks) # {}
    /\ ~Closed(tasks)
    /\ kahn.sorted # <<>>
    /\ kahn.sorted = topologicalSort(tasks, BuildPredecessors(tasks), BuildSuccessors(tasks))

(***************************************************************************)
(* C19: references to ids that are not in the task set.                    *)
(***************************************************************************)
\* the dependency entries of a task that name a task of the snapshot
PresentDeps(ts, id) ==
    LET deps == TaskOf(ts, id).dependencies
    IN  { deps[k] : k \in DOMAIN deps } \cap IdsOf(ts)

\* C19: a task with a dependency entry that names no task of the snapshot is
\* still scheduled, as if it did not have that entry: once the predecessors
\* it has in the snapshot are scheduled it is a node, and its ES is the
\* largest EF among them, 0 when there is none.
C19_MissingPredecessorIsSatisfied ==
    pc = "done" =>
        \A id \in IdsOf(tasks) :
            (HasDangling(tasks, id) /\ PresentDeps(tasks, id) \subseteq NodeIds(result))
              => /\ id \in NodeIds(result)
                 /\ NodeOf(result, id).es
                      = SetMax({0} \cup { NodeOf(result, p).ef : p \in PresentDeps(tasks, id) })

\* What the code does: a task with such an entry is never scheduled, and
\* neither is a task that depends on it.
C19_MissingPredecessorExcludes ==
    pc = "done" =>
        \A id \in IdsOf(tasks) :
            (\E a \in Ancestors(tasks, id) \cup {id} : HasDangling(tasks, a))
              => id \notin NodeIds(result)

(***************************************************************************)
(* C20: the backward pass.                                                 *)
(***************************************************************************)
\* the scheduled nodes that list id among their dependencies
ScheduledSuccessors(res, id) == { b \in NodeIds(res) : IsDepOf(res, id, b) }

\* LF as C20 states it
LatestFinishRule(res, id) ==
    IF ScheduledSuccessors(res, id) = {} THEN res.projectDuration
    ELSE SetMin({ NodeOf(res, b).ls : b \in ScheduledSuccessors(res, id) })

\* C20: LF(t) is projectDuration when no scheduled node depends on t, and
\* otherwise the smallest LS among the scheduled nodes that depend on t;
\* LS(t) = LF(t) - effectiveDuration(t).
C20_BackwardPass ==
    pc = "done" =>
        \A id \in NodeIds(result) :
            LET n == NodeOf(result, id)
            IN  /\ n.lf = LatestFinishRule(result, id)
                /\ n.ls = n.lf - ExactEffectiveDuration(n)

\* What the code guarantees: the LF rule as stated, and LS = LF minus the
\* effective duration as the engine rounds it.
C20_BackwardPassEngineDuration ==
    pc = "done" =>
        \A id \in NodeIds(result) :
            LET n == NodeOf(result, id)
            IN  /\ n.lf = LatestFinishRule(result, id)
                /\ n.ls = n.lf - effectiveDurationBackward(n)

(***************************************************************************)
(* C21: the order of result.nodes.                                         *)
(***************************************************************************)
\* the place in result.nodes of the dependency of a node that was placed
\* last, 0 for a node without dependencies: the iteration in which the
\* in-degree of the node reached zero
ReadyAt(res, id) ==
    LET deps == NodeOf(res, id).dependencies
    IN  IF deps = <<>> THEN 0
        ELSE SetMax({ NodeIndex(res, deps[k]) : k \in DOMAIN deps })

\* C21: result.nodes is the order of a first-in first-out queue seeded with
\* the tasks without dependencies in input order: those tasks come first, in
\* input order, and every other task follows in the order in which its
\* in-degree reached zero, tasks released by the same iteration in input
\* order (the order of the successor list).
C21_FifoOrder ==
    pc = "done" =>
        \A i, j \in DOMAIN result.nodes :
            i < j =>
              LET a == result.nodes[i].id
                  b == result.nodes[j].id
              IN  \/ ReadyAt(result, a) < ReadyAt(result, b)
                  \/ /\ ReadyAt(result, a) = ReadyAt(result, b)
                     /\ InputIndex(tasks, a) < InputIndex(tasks, b)

\* two tasks without dependencies come first and the task the input lists
\* first comes last, behind the dependency that released it
C21_Witness ==
    /\ pc = "done"
    /\ Len(result.nodes) = 3
    /\ result.nodes[1].dependencies = <<>>
    /\ result.nodes[2].dependencies = <<>>
    /\ result.nodes[3].dependencies # <<>>
    /\ InputIndex(tasks, result.nodes[3].id) = 1

(***************************************************************************)
(* C26: which tasks are scheduled.                                         *)
(***************************************************************************)
\* the task and everything it depends on is in the list and off every cycle
Schedulable(ts, id) ==
    \A a \in Ancestors(ts, id) \cup {id} : ~HasDangling(ts, a) /\ ~OnCycle(ts, a)

\* C26: a task is a node of the result exactly when it and every task it
\* depends on, directly or transitively, has all its dependencies in the task
\* set and lies on no cycle; every dependency of a node is a node that comes
\* earlier in result.nodes.
C26_ScheduledIffSchedulable ==
    pc = "done" =>
        /\ \A id \in IdsOf(tasks) : id \in NodeIds(result) <=> Schedulable(tasks, id)
        /\ \A k \in DOMAIN result.nodes :
             \A d \in DOMAIN result.nodes[k].dependencies :
                 \E j \in 1..(k - 1) : result.nodes[j].id = result.nodes[k].dependencies[d]

\* a task is a node, and another is left out only because a task it depends
\* on is
C26_Witness ==
    /\ pc = "done"
    /\ result.nodes # <<>>
    /\ \E id \in IdsOf(tasks) \ NodeIds(result) :
         ~HasDangling(tasks, id) /\ ~OnCycle(tasks, id)

(***************************************************************************)
(* C27: the critical path is not empty.                                    *)
(***************************************************************************)
\* C27: when result.nodes is not empty, criticalPath is not empty and holds
\* a node whose EF is projectDuration.
C27_CriticalPathReachesEnd ==
    (pc = "done" /\ result.nodes # <<>>) =>
        \E k \in DOMAIN result.criticalPath :
            /\ result.criticalPath[k] \in NodeIds(result)
            /\ NodeOf(result, result.criticalPath[k]).ef = result.projectDuration

\* three nodes, one of them with float, and a positive project duration
C27_Witness ==
    /\ pc = "done"
    /\ Len(result.nodes) = 3
    /\ result.projectDuration > 0
    /\ \E k \in DOMAIN result.nodes : ~result.nodes[k].isCritical
    /\ \E k \in DOMAIN result.criticalPath :
         NodeOf(result, result.criticalPath[k]).ef = result.projectDuration

(***************************************************************************)
(* The API handlers GET /api/projects/[id]/cpm and .../insights.           *)
(* A Date is its day count; the time of day, which setDate keeps, is left  *)
(* out. An optional date is a sequence of no or one date.                  *)
(***************************************************************************)
\* the time value NaN of a Date
InvalidDate == -2000000

\* endDate.setDate(endDate.getDate() + days) on a copy of the date
SetDatePlus(date, days) ==
    IF date = InvalidDate \/ ~IsFinite(days) THEN InvalidDate ELSE date + days

\* date.toISOString() of a valid date (it throws RangeError for Invalid Date)
ToISOString(date) == [iso |-> date]

\* endDate > project.targetDate: false when either side is NaN
DateAfter(a, b) == a # InvalidDate /\ b # InvalidDate /\ a > b

\* project.tasks.map(...) of the handlers
CpmInputOf(rows) ==
    [ i \in DOMAIN rows |->
        [ id           |-> rows[i].id,
          duration     |-> rows[i].duration,
          dependencies |-> rows[i].dependencies,
          status       |-> rows[i].status,
          progress     |-> rows[i].progress,
          assigneeId   |-> rows[i].assigneeId,
          assigneeName |-> rows[i].assigneeName ] ]

\* the answer to a request for a project id that has no row
NotFound(route, id) ==
    [ route |-> route, projectId |-> id, status |-> 404, error |-> "Project not found" ]

\* an exception leaves the handler: the framework answers with status 500
Fault(route, id) ==
    [ route |-> route, projectId |-> id, status |-> 500, error |-> "RangeError: Invalid time value" ]

CpmResponse(proj, res, loads) ==
    LET endDate == SetDatePlus(proj.startDate, res.projectDuration)
    IN  IF endDate = InvalidDate THEN Fault("cpm", proj.id)
        ELSE [ route            |-> "cpm",
               projectId        |-> proj.id,
               status           |-> 200,
               projectDuration  |-> res.projectDuration,
               startDate        |-> ToISOString(proj.startDate),
               estimatedEndDate |-> ToISOString(endDate),
               resourceAnalysis |-> loads ]

\* the health of the insights answer, without the blocker counts
HealthOf(proj, rows, endDate) ==
    LET blockedTasks == Cardinality({ i \in DOMAIN rows : rows[i].status = "blocked" })
    IN  IF proj.targetDate # <<>> /\ DateAfter(endDate, proj.targetDate[1]) THEN "behind"
        ELSE IF blockedTasks > 2 THEN "behind"
        ELSE IF blockedTasks > 0 THEN "at_risk"
        ELSE "on_track"

InsightsResponse(proj, rows, res, loads) ==
    LET endDate == SetDatePlus(proj.startDate, res.projectDuration)
    IN  IF endDate = InvalidDate THEN Fault("insights", proj.id)
        ELSE [ route              |-> "insights",
               projectId          |-> proj.id,
               status             |-> 200,
               startDate          |-> ToISOString(proj.startDate),
               estimatedEndDate   |-> ToISOString(endDate),
               health             |-> HealthOf(proj, rows, endDate),
               criticalPathLength |-> res.projectDuration,
               criticalTaskCount  |-> Len(res.criticalPath),
               resourceAnalysis   |-> loads ]

RequestedIds == {"p1", "p2"}

HandlerProfiles ==
    { NotStarted(2), [duration |-> 3, status |-> "completed", progress |-> 40] }

InitHandler ==
    /\ \E n \in 0..Len(TaskIds) :
         \E g \in AnalysisGraphs(n) :
           \E prof \in [1..n -> HandlerProfiles] :
             \E who \in [1..n -> Assignees] :
               tasks = [ i \in 1..n |-> MakeAssignedTask(i, prof[i], g[i], who[i]) ]
    /\ \E target \in {<<>>, <<3>>} :
         project = [id |-> "p1", startDate |-> 10, targetDate |-> target]
    /\ response = NoResponse
    /\ CheckinIdle
    /\ VoiceIdle
    /\ pc = "input"
    /\ result = NoResult
    /\ completedTask = 0
    /\ resultCompleted = NoResult
    /\ console = <<>>
    /\ analysis = NoAnalysis
    /\ kahn = NoSort

\* GET /api/projects/[id]/cpm
GetCpm(id) ==
    /\ pc = "input"
    /\ IF id # project.id
       THEN /\ response' = NotFound("cpm", id)
            /\ result' = result
            /\ analysis' = analysis
            /\ console' = console
       ELSE /\ result' = calculateCPM(CpmInputOf(tasks))
            /\ console' = console \o calculateCPMWarnings(CpmInputOf(tasks))
            /\ analysis' = analyzeResourceAllocation(result')
            /\ response' = CpmResponse(project, result', analysis')
    /\ pc' = "responded"
    /\ UNCHANGED <<tasks, project, completedTask, resultCompleted, kahn, checkinVars, voiceVars>>

\* GET /api/projects/[id]/insights
GetInsights(id) ==
    /\ pc = "input"
    /\ IF id # project.id
       THEN /\ response' = NotFound("insights", id)
            /\ result' = result
            /\ analysis' = analysis
            /\ console' = console
       ELSE /\ result' = calculateCPM(CpmInputOf(tasks))
            /\ console' = console \o calculateCPMWarnings(CpmInputOf(tasks))
            /\ analysis' = analyzeResourceAllocation(result')
            /\ response' = InsightsResponse(project, tasks, result', analysis')
    /\ pc' = "responded"
    /\ UNCHANGED <<tasks, project, completedTask, resultCompleted, kahn, checkinVars, voiceVars>>

NextHandler ==
    \/ \E id \in RequestedIds : GetCpm(id)
    \/ \E id \in RequestedIds : GetInsights(id)

SpecHandler == InitHandler /\ [][NextHandler]_vars

(***************************************************************************)
(* C22: the estimated end date.                                            *)
(***************************************************************************)
\* the dependency rows of the project name tasks of the project, and no task
\* depends on itself
DependencyRowsInProject(rows) ==
    /\ Closed(rows)
    /\ \A id \in IdsOf(rows) : id \notin DepsIn(rows, id)

\* C22: for a stored project both handlers answer, and estimatedEndDate is
\* the start date plus projectDuration days, also when every task of the
\* project lies on a dependency cycle.
C22_EndDateIsStartPlusDuration ==
    (pc = "responded" /\ response.projectId = project.id /\ DependencyRowsInProject(tasks)) =>
        /\ response.status = 200
        /\ response.estimatedEndDate
             = ToISOString(project.startDate + result.projectDuration)

\* What the code guarantees: the handlers answer with that date when the
\* engine scheduled a task or the project has none, and throw when the
\* project duration is -Infinity.
C22_EndDateWhenDurationFinite ==
    (pc = "responded" /\ response.projectId = project.id) =>
        IF IsFinite(result.projectDuration)
        THEN /\ response.status = 200
             /\ response.estimatedEndDate
                  = ToISOString(project.startDate + result.projectDuration)
        ELSE response.status = 500

(***************************************************************************)
(* The check-in processing handler POST /api/checkins/process: the loop    *)
(* that resolves blockers. A text is the sequence of its characters; null  *)
(* and undefined texts are the empty text, which is what `value ?? ""` and *)
(* the truthiness tests of the handler make of them.                       *)
(***************************************************************************)
Whitespace == {" "}

\* String.prototype.toLowerCase on the letters that occur
LowerCaseOf(c) ==
    CASE c = "A" -> "a"
      [] c = "B" -> "b"
      [] c = "I" -> "i"
      [] c = "P" -> "p"
      [] OTHER   -> c

ToLowerCase(text) == [ k \in DOMAIN text |-> LowerCaseOf(text[k]) ]

RECURSIVE TrimStart(_)
TrimStart(text) ==
    IF text # <<>> /\ Head(text) \in Whitespace THEN TrimStart(Tail(text)) ELSE text

RECURSIVE TrimEnd(_)
TrimEnd(text) ==
    IF text # <<>> /\ text[Len(text)] \in Whitespace
    THEN TrimEnd(SubSeq(text, 1, Len(text) - 1))
    ELSE text

\* (value ?? "").trim().toLowerCase()
normalizeText(value) == ToLowerCase(TrimEnd(TrimStart(value)))

\* haystack.includes(needle)
Includes(haystack, needle) ==
    \E i \in 0..(Len(haystack) - Len(needle)) :
        SubSeq(haystack, i + 1, i + Len(needle)) = needle

scoreResolvedCandidate(resolved, candidate) ==
    LET person               == normalizeText(resolved.person)
        taskName             == normalizeText(resolved.taskName)
        description          == normalizeText(resolved.description)
        candidateDescription == normalizeText(candidate.description)
        reportedBy           == normalizeText(candidate.reportedBy)
        assignedTo           == normalizeText(candidate.assignedTo)
        candidateTask        == normalizeText(candidate.task)
    IN  (IF person # <<>> /\ (Includes(reportedBy, person) \/ Includes(assignedTo, person))
         THEN 3 ELSE 0)
        + (IF taskName # <<>> /\ candidate.task # <<>>
              /\ (Includes(candidateTask, taskName) \/ Includes(taskName, candidateTask))
           THEN 2 ELSE 0)
        + (IF Len(description) >= 6
              /\ (Includes(candidateDescription, description)
                    \/ Includes(description, candidateDescription))
           THEN 2 ELSE 0)

\* no candidate: bestIndex = -1 (indices count from 1 here, so 0)
NoCandidate == [bestIndex |-> 0, bestScore |-> 0]

\* for (let i = 0; i < remaining.length; i++) { ... if (score > bestScore) ... }
RECURSIVE ScanCandidates(_, _, _, _)
ScanCandidates(resolved, remaining, i, best) ==
    IF i > Len(remaining) THEN best
    ELSE LET score == scoreResolvedCandidate(resolved, remaining[i])
         IN  ScanCandidates(resolved, remaining, i + 1,
                            IF score > best.bestScore
                            THEN [bestIndex |-> i, bestScore |-> score]
                            ELSE best)

\* remaining.splice(index, 1)
Splice(remaining, index) ==
    SubSeq(remaining, 1, index - 1) \o SubSeq(remaining, index + 1, Len(remaining))

\* remaining.findIndex((b) => b.id === id), 0 when there is none
FindIndex(remaining, id) ==
    IF \E k \in DOMAIN remaining : remaining[k].id = id
    THEN CHOOSE k \in DOMAIN remaining :
            /\ remaining[k].id = id
            /\ \A j \in 1..(k - 1) : remaining[j].id # id
    ELSE 0

\* the blocker the body of the loop matches to one mention: Priority 1, the
\* row with the mentioned id; Priority 2, when nothing is matched yet, the
\* first row with the highest score if that is at least 2; 0 for no match
MatchedIndex(remaining, resolved) ==
    LET exact == IF Truthy(resolved.blockerId) THEN FindIndex(remaining, resolved.blockerId)
                 ELSE 0
        best  == ScanCandidates(resolved, remaining, 1, NoCandidate)
    IN  IF exact # 0 THEN exact
        ELSE IF best.bestIndex >= 1 /\ best.bestScore >= 2 THEN best.bestIndex
        ELSE 0

\* a loop body that leaves the matched row among the candidates
ResolveMention_KeepsCandidate(st, k, resolved) ==
    LET index == MatchedIndex(st.remaining, resolved)
    IN  IF index = 0 THEN st
        ELSE [ st EXCEPT !.resolutions =
                 Append(@, [mention |-> k, blockerId |-> st.remaining[index].id]) ]

\* the body of for (const resolved of extraction.resolvedBlockers), for the
\* mention at place k
ResolveMention(st, k, resolved) ==
    LET index == MatchedIndex(st.remaining, resolved)
    IN  IF index = 0 THEN st
        ELSE [ remaining   |-> Splice(st.remaining, index),
               resolutions |-> Append(st.resolutions,
                                      [mention |-> k, blockerId |-> st.remaining[index].id]) ]

RECURSIVE ResolveLoop(_, _, _)
ResolveLoop(st, mentions, k) ==
    IF k > Len(mentions) THEN st
    ELSE ResolveLoop(ResolveMention(st, k, mentions[k]), mentions, k + 1)

\* prisma.blocker.findMany({ where: { status: "open" }, ... })
OpenRows(rows) == SelectSeq(rows, LAMBDA b : b.status = "open")

\* prisma.blocker.update({ data: { status: "resolved" } }) for every match;
\* an updated row becomes the newest
AfterUpdates(rows, done) ==
    LET ids == { done[k].blockerId : k \in DOMAIN done }
        updated == [ k \in DOMAIN done |->
                       LET row == rows[FindIndex(rows, done[Len(done) + 1 - k].blockerId)]
                       IN  [ row EXCEPT !.status = "resolved" ] ]
    IN  updated \o SelectSeq(rows, LAMBDA b : b.id \notin ids)

\* prisma.blocker.create for the blockers the extraction reports
RECURSIVE AfterCreates(_, _, _)
AfterCreates(rows, reported, developer) ==
    IF reported = <<>> THEN rows
    ELSE AfterCreates(<< [ id          |-> "new" \o ToString(Len(rows) + 1),
                           status      |-> "open",
                           description |-> Head(reported).description,
                           reportedBy  |-> developer,
                           assignedTo  |-> <<>>,
                           task        |-> <<>> ] >> \o rows,
                      Tail(reported), developer)

\* the blocker rows a table is drawn from
BlockerCatalogue ==
    << [ id |-> "b1", status |-> "open",
         description |-> <<"d", "e", "p", "l", "o", "y", "s">>,
         reportedBy  |-> <<"A", "n", "n">>,
         assignedTo  |-> <<>>,
         task        |-> <<"a", "p", "i">> ],
       [ id |-> "b2", status |-> "open",
         description |-> <<"b", "u", "i", "l", "d">>,
         reportedBy  |-> <<"B", "o", "b">>,
         assignedTo  |-> <<"A", "n", "n">>,
         task        |-> <<>> ],
       [ id |-> "b3", status |-> "open",
         description |-> <<"d", "e", "p", "l", "o", "y">>,
         reportedBy  |-> <<"B", "o", "b">>,
         assignedTo  |-> <<>>,
         task        |-> <<>> ] >>

\* the tables: some of the rows, in any order of their last update
BlockerTables ==
    { [ k \in DOMAIN order |-> BlockerCatalogue[order[k]] ] :
        order \in { o \in UNION { [1..n -> DOMAIN BlockerCatalogue] : n \in 0..Len(BlockerCatalogue) } :
                      \A i, j \in DOMAIN o : i # j => o[i] # o[j] } }

MaxMentions == 2

\* what the AI extraction can return for one resolved blocker
Mentions ==
    [ blockerId   : {Undefined, "b1", "b9"},
      person      : { <<>>, <<" ", "A", "n", "n">> },
      taskName    : { <<>>, <<"A", "P", "I">> },
      description : { <<"b", "u", "i", "l", "d">>, <<"d", "e", "p", "l", "o", "y">> } ]

Extractions ==
    {NoExtraction} \cup
    [ checkInFound     : {TRUE},
      resolvedBlockers : UNION { [1..n -> Mentions] : n \in 0..MaxMentions },
      blockers         : { <<>>, << [description |-> <<"s", "l", "o", "w">>, severity |-> "high"] >> } ]

\* no call of the engine has been made
EngineIdle ==
    /\ tasks = <<>>
    /\ pc = "input"
    /\ result = NoResult
    /\ completedTask = 0
    /\ resultCompleted = NoResult
    /\ console = <<>>
    /\ analysis = NoAnalysis
    /\ kahn = NoSort

InitCheckin ==
    /\ EngineIdle
    /\ HandlerIdle
    /\ blockers \in BlockerTables
    /\ extraction \in Extractions
    /\ resolutions = <<>>
    /\ VoiceIdle

\* POST /api/checkins/process
ProcessCheckIn ==
    /\ pc = "input"
    /\ IF ~extraction.checkInFound
       THEN /\ blockers' = blockers
            /\ resolutions' = resolutions
       ELSE LET done == IF Len(extraction.resolvedBlockers) > 0
                        THEN ResolveLoop([remaining |-> OpenRows(blockers), resolutions |-> <<>>],
                                         extraction.resolvedBlockers, 1).resolutions
                        ELSE <<>>
            IN  /\ resolutions' = done
                /\ blockers' = AfterCreates(AfterUpdates(blockers, done),
                                            extraction.blockers, <<"B", "o", "b">>)
    /\ pc' = "processed"
    /\ UNCHANGED <<tasks, result, completedTask, resultCompleted, console, analysis, kahn,
                   handlerVars, extraction, voiceVars>>

NextCheckin == ProcessCheckIn

SpecCheckin == InitCheckin /\ [][NextCheckin]_vars

(***************************************************************************)
(* C24: one mention per blocker, and the threshold of the fuzzy match.     *)
(***************************************************************************)
\* the blocker row with the given id, among the catalogue rows
CatalogueRow(id) ==
    BlockerCatalogue[CHOOSE k \in DOMAIN BlockerCatalogue : BlockerCatalogue[k].id = id]

\* the ids of the rows that were open when the run began
TableIds ==
    { blockers[k].id : k \in DOMAIN blockers }
      \cap { BlockerCatalogue[k].id : k \in DOMAIN BlockerCatalogue }

\* C24: in one run no blocker is resolved by two mentions, and a mention
\* that does not carry the id of the blocker it resolves scores at least 2
\* against it, and no lower than against any blocker not yet matched.
C24_OneMentionPerBlocker ==
    pc = "processed" =>
        /\ \A i, j \in DOMAIN resolutions :
             resolutions[i].blockerId = resolutions[j].blockerId => i = j
        /\ \A i \in DOMAIN resolutions :
             LET mention == extraction.resolvedBlockers[resolutions[i].mention]
                 earlier == { resolutions[j].blockerId : j \in 1..(i - 1) }
                 score(id) == scoreResolvedCandidate(mention, CatalogueRow(id))
             IN  mention.blockerId # resolutions[i].blockerId =>
                   /\ score(resolutions[i].blockerId) >= 2
                   /\ \A b \in TableIds \ earlier : score(b) <= score(resolutions[i].blockerId)

\* two mentions with the same words and no id have resolved two blockers:
\* the second went to the next best row because the best one was taken
C24_Witness ==
    /\ pc = "processed"
    /\ Len(resolutions) = 2
    /\ extraction.resolvedBlockers[1] = extraction.resolvedBlockers[2]
    /\ extraction.resolvedBlockers[1].blockerId = Undefined
    /\ resolutions[1].blockerId # resolutions[2].blockerId

(***************************************************************************)
(* C25: mentions that carry a blocker id.                                  *)
(***************************************************************************)
\* C25: a mention that carries a blockerId resolves the blocker with that id
\* or nothing; the score-based match is for mentions without a blockerId.
C25_IdMentionResolvesThatIdOrNothing ==
    pc = "processed" =>
        \A i \in DOMAIN resolutions :
            LET mention == extraction.resolvedBlockers[resolutions[i].mention]
            IN  Truthy(mention.blockerId) => resolutions[i].blockerId = mention.blockerId

\* What the code guarantees: a mention whose blockerId names a row that is
\* still a candidate resolves that row.
C25_IdMentionResolvesCandidateWithThatId ==
    pc = "processed" =>
        \A k \in DOMAIN extraction.resolvedBlockers :
            LET mention == extraction.resolvedBlockers[k]
                earlier == { resolutions[j].blockerId :
                               j \in { j \in DOMAIN resolutions : resolutions[j].mention < k } }
            IN  (Truthy(mention.blockerId) /\ mention.blockerId \in TableIds \ earlier)
                  => \E i \in DOMAIN resolutions :
                       /\ resolutions[i].mention = k
                       /\ resolutions[i].blockerId = mention.blockerId

(***************************************************************************)
(* The voice check-in sessions of the Discord bot: startVoiceCheckin,      *)
(* endVoiceCheckin and the events that call them.  Every await of the code *)
(* is a point where another handler may run, so a function is one action   *)
(* per stretch of code between two awaits.                                  *)
(***************************************************************************)

engineVars == <<tasks, pc, result, completedTask, resultCompleted, console, analysis, kahn>>

MaxEndCalls == 3

hasActiveSession(g) == activeSessions[g] # NoSession

\* bridge.getTranscript() of a session: the greeting is the first entry of the history
TranscriptOf(sts, s) == IF sts[s].greeted THEN "transcript" ELSE ""

\* endVoiceCheckin with the map entry left in place until the work is over
endVoiceCheckin_KeepsEntry(g, calls, sts, i) ==
    LET session == activeSessions[g]
        transcript == TranscriptOf(sts, session)
        saves == transcript # "" /\ sts[session].developerId
    IN IF session = NoSession
       THEN /\ endCalls' = [calls EXCEPT ![i].stage = "returned", ![i].returned = "null"]
            /\ starts' = sts
            /\ UNCHANGED <<activeSessions, endWork>>
       ELSE /\ activeSessions' = activeSessions
            /\ starts' = [sts EXCEPT ![session].connection = "destroyed"]
            /\ endWork' = [endWork EXCEPT
                              ![session].ended = @ + 1,
                              ![session].transcriptStored = @ + (IF transcript # "" THEN 1 ELSE 0),
                              ![session].checkInSaved = @ + (IF saves THEN 1 ELSE 0)]
            /\ endCalls' = [calls EXCEPT
                              ![i].session = session,
                              ![i].stage = IF saves THEN "saving" ELSE "returned",
                              ![i].returned = IF saves THEN "pending" ELSE transcript]

\* endVoiceCheckin up to its first await, called as the call calls[i] on the
\* start calls sts; the Destroyed handler that connection.destroy() runs
\* deletes the entry that is already deleted
endVoiceCheckin(g, calls, sts, i) ==
    LET session == activeSessions[g]
        transcript == TranscriptOf(sts, session)
        saves == transcript # "" /\ sts[session].developerId
    IN IF session = NoSession
       THEN /\ endCalls' = [calls EXCEPT ![i].stage = "returned", ![i].returned = "null"]
            /\ starts' = sts
            /\ UNCHANGED <<activeSessions, endWork>>
       ELSE /\ activeSessions' = [activeSessions EXCEPT ![g] = NoSession]
            /\ starts' = [sts EXCEPT ![session].connection = "destroyed"]
            /\ endWork' = [endWork EXCEPT
                              ![session].ended = @ + 1,
                              ![session].transcriptStored = @ + (IF transcript # "" THEN 1 ELSE 0),
                              ![session].checkInSaved = @ + (IF saves THEN 1 ELSE 0)]
            /\ endCalls' = [calls EXCEPT
                              ![i].session = session,
                              ![i].stage = IF saves THEN "saving" ELSE "returned",
                              ![i].returned = IF saves THEN "pending" ELSE transcript]

EndCall(trigger, stage) ==
    [trigger |-> trigger, session |-> NoSession, stage |-> stage, returned |-> "pending"]

\* startVoiceCheckin up to the await of entersState, or up to its return
StartVoiceCheckin(s, g, developerId) ==
    /\ starts[s].pc = "idle"
    /\ IF activeSessions[g] # NoSession
       THEN starts' = [starts EXCEPT ![s].pc = "already in progress"]
       ELSE starts' = [starts EXCEPT ![s].pc = "joining",
                                     ![s].connection = "signalling",
                                     ![s].developerId = developerId]
    /\ UNCHANGED <<activeSessions, endCalls, endWork, bridge, utterances, player, capture>>
    /\ UNCHANGED <<engineVars, handlerVars, checkinVars>>

\* entersState resolved: player and bridge are created and the session is stored
EntersStateReady(s, g) ==
    /\ starts[s].pc = "joining"
    /\ starts' = [starts EXCEPT ![s].pc = "announcing",
                                ![s].connection = "ready",
                                ![s].bridgeCreated = TRUE]
    /\ activeSessions' = [activeSessions EXCEPT ![g] = s]
    /\ UNCHANGED <<endCalls, endWork, bridge, utterances, player, capture>>
    /\ UNCHANGED <<engineVars, handlerVars, checkinVars>>

\* entersState rejected after ten seconds
EntersStateTimeout(s) ==
    /\ starts[s].pc = "joining"
    /\ starts' = [starts EXCEPT ![s].pc = "failed to join", ![s].connection = "destroyed"]
    /\ UNCHANGED <<activeSessions, endCalls, endWork, bridge, utterances, player, capture>>
    /\ UNCHANGED <<engineVars, handlerVars, checkinVars>>

\* the "Connected to ..." message was sent; bridge.greet() is awaited
Announced(s) ==
    /\ starts[s].pc = "announcing"
    /\ starts' = [starts EXCEPT ![s].pc = "greeting"]
    /\ UNCHANGED <<activeSessions, endCalls, endWork, bridge, utterances, player, capture>>
    /\ UNCHANGED <<engineVars, handlerVars, checkinVars>>

\* greet() pushed the greeting on the conversation history and awaits the speech
GreetingPushed(s) ==
    /\ starts[s].pc = "greeting"
    /\ ~starts[s].greeted
    /\ starts' = [starts EXCEPT ![s].greeted = TRUE]
    /\ UNCHANGED <<activeSessions, endCalls, endWork, bridge, utterances, player, capture>>
    /\ UNCHANGED <<engineVars, handlerVars, checkinVars>>

\* bridge.greet() settled, with a greeting in the history or without one;
\* startListening runs and the two connection handlers are registered
Greeted(s) ==
    /\ starts[s].pc = "greeting"
    /\ starts' = [starts EXCEPT ![s].pc = "listening"]
    /\ UNCHANGED <<activeSessions, endCalls, endWork, bridge, utterances, player, capture>>
    /\ UNCHANGED <<engineVars, handlerVars, checkinVars>>

\* /endcheckin: handleEndCheckin up to the await of its reply
HandleEndCheckin(g) ==
    /\ Len(endCalls) < MaxEndCalls
    /\ hasActiveSession(g)
    /\ endCalls' = Append(endCalls, EndCall("/endcheckin", "replying"))
    /\ UNCHANGED <<activeSessions, starts, endWork, bridge, utterances, player, capture>>
    /\ UNCHANGED <<engineVars, handlerVars, checkinVars>>

\* the reply of /endcheckin was sent: endVoiceCheckin is called
EndCheckinReplied(g, i) ==
    /\ i \in DOMAIN endCalls
    /\ endCalls[i].stage = "replying"
    /\ endVoiceCheckin(g, endCalls, starts, i)
    /\ UNCHANGED <<bridge, utterances, player, capture>>
    /\ UNCHANGED <<engineVars, handlerVars, checkinVars>>

\* voiceStateUpdate: the member who started the stored session left the channel
UserLeft(g, member) ==
    /\ Len(endCalls) < MaxEndCalls
    /\ activeSessions[g] # NoSession
    /\ member = activeSessions[g]
    /\ endVoiceCheckin(g, Append(endCalls, EndCall("user left", "called")), starts,
                       Len(endCalls) + 1)
    /\ UNCHANGED <<bridge, utterances, player, capture>>
    /\ UNCHANGED <<engineVars, handlerVars, checkinVars>>

\* the connection of start call s emits Disconnected and its handler runs
Disconnected(s, g) ==
    /\ Len(endCalls) < MaxEndCalls
    /\ starts[s].pc = "listening"
    /\ starts[s].connection = "ready"
    /\ endVoiceCheckin(g, Append(endCalls, EndCall("disconnected", "called")),
                       [starts EXCEPT ![s].connection = "disconnected"],
                       Len(endCalls) + 1)
    /\ UNCHANGED <<bridge, utterances, player, capture>>
    /\ UNCHANGED <<engineVars, handlerVars, checkinVars>>

\* POST /api/checkins answered; with an ok answer the processing is triggered
CheckInSaveAnswered(i, ok) ==
    /\ i \in DOMAIN endCalls
    /\ endCalls[i].stage = "saving"
    /\ IF ok
       THEN /\ endCalls' = [endCalls EXCEPT ![i].stage = "processing"]
            /\ endWork' = [endWork EXCEPT ![endCalls[i].session].processingTriggered = @ + 1]
       ELSE /\ endCalls' = [endCalls EXCEPT ![i].stage = "returned", ![i].returned = "transcript"]
            /\ endWork' = endWork
    /\ UNCHANGED <<activeSessions, starts, bridge, utterances, player, capture>>
    /\ UNCHANGED <<engineVars, handlerVars, checkinVars>>

\* POST /api/checkins/process answered or failed; the summary is sent
ProcessingAnswered(i) ==
    /\ i \in DOMAIN endCalls
    /\ endCalls[i].stage = "processing"
    /\ endCalls' = [endCalls EXCEPT ![i].stage = "returned", ![i].returned = "transcript"]
    /\ UNCHANGED <<activeSessions, starts, endWork, bridge, utterances, player, capture>>
    /\ UNCHANGED <<engineVars, handlerVars, checkinVars>>

InitVoice ==
    /\ EngineIdle
    /\ HandlerIdle
    /\ CheckinIdle
    /\ VoiceIdle

NextVoice ==
    \/ \E s \in StartCalls, g \in Guilds, developerId \in BOOLEAN : StartVoiceCheckin(s, g, developerId)
    \/ \E s \in StartCalls, g \in Guilds : EntersStateReady(s, g)
    \/ \E s \in StartCalls : EntersStateTimeout(s)
    \/ \E s \in StartCalls : Announced(s)
    \/ \E s \in StartCalls : GreetingPushed(s)
    \/ \E s \in StartCalls : Greeted(s)
    \/ \E g \in Guilds : HandleEndCheckin(g)
    \/ \E g \in Guilds, i \in 1..MaxEndCalls : EndCheckinReplied(g, i)
    \/ \E g \in Guilds, member \in StartCalls : UserLeft(g, member)
    \/ \E s \in StartCalls, g \in Guilds : Disconnected(s, g)
    \/ \E i \in 1..MaxEndCalls, ok \in BOOLEAN : CheckInSaveAnswered(i, ok)
    \/ \E i \in 1..MaxEndCalls : ProcessingAnswered(i)

SpecVoice == InitVoice /\ [][NextVoice]_vars

\* a start call that joined or is joining and whose session was not ended
Live(s) ==
    /\ starts[s].pc \in {"joining", "announcing", "greeting", "listening"}
    /\ endWork[s].ended = 0

\* C28: at most one voice check-in per guild holds a bridge at any time: a
\* start issued while another start is joining or a session is active creates
\* no second bridge (there is one guild, so the start calls are all its calls)
C28_OneBridgePerGuild ==
    Cardinality({ s \in StartCalls : Live(s) /\ starts[s].bridgeCreated }) <= 1

\* C28, the part the guard does establish: a start issued while a session is
\* stored for the guild is answered with "already in progress"
C28_StartWithStoredSessionIsRefused ==
    [][\A s \in StartCalls, g \in Guilds :
         (starts[s].pc = "idle" /\ starts'[s].pc # "idle" /\ activeSessions[g] # NoSession)
           => (starts'[s].pc = "already in progress" /\ ~starts'[s].bridgeCreated)]_vars

\* C29: the end-of-session work (end, transcript stored, check-in saved,
\* processing triggered) runs at most once for each session, and a call of
\* endVoiceCheckin that finds no session returns null and changes nothing
C29_EndWorkAtMostOnce ==
    [][/\ \A s \in StartCalls :
            /\ endWork'[s].ended <= 1
            /\ endWork'[s].transcriptStored <= 1
            /\ endWork'[s].checkInSaved <= 1
            /\ endWork'[s].processingTriggered <= 1
       /\ \A i \in DOMAIN endCalls' :
            (/\ endCalls'[i].stage = "returned"
             /\ endCalls'[i].session = NoSession
             /\ (i \notin DOMAIN endCalls \/ endCalls[i].stage # "returned"))
              => /\ endCalls'[i].returned = "null"
                 /\ UNCHANGED <<activeSessions, endWork>>
                 /\ \A s \in StartCalls : starts'[s].pc = starts[s].pc
                                          /\ starts'[s].greeted = starts[s].greeted]_vars

\* C29: the work of the call that found session s ran to its end, and a call
\* made by /endcheckin for the same session found no session and returned null
C29_Witness ==
    \E s \in StartCalls :
      /\ endWork[s].processingTriggered = 1
      /\ Cardinality({ i \in DOMAIN endCalls : endCalls[i].session = s }) = 1
      /\ \E i \in DOMAIN endCalls :
           /\ endCalls[i].trigger = "/endcheckin"
           /\ endCalls[i].session = NoSession
           /\ endCalls[i].returned = "null"
      /\ \A t \in StartCalls \ {s} : starts[t].pc = "idle"

(***************************************************************************)
(* One VoiceBridge and the listener of its session: greet(),               *)
(* processUtterance() one await at a time, the audio player, and the       *)
(* speaking events that startListening handles.  A recording remembers     *)
(* whether the agent's audio was playing, or a pipeline was running, while *)
(* it was open.                                                            *)
(***************************************************************************)

MaxUtterances == 3

\* the session whose bridge is followed
TheSession == 1

InFlightStages == {"stt", "llm", "tts"}

InFlight == { i \in DOMAIN utterances : utterances[i].stage \in InFlightStages }

\* processUtterance without its first three lines
processUtterance_NoGuard(heardAgent) ==
    /\ bridge' = [bridge EXCEPT !.isProcessing = TRUE]
    /\ utterances' = Append(utterances, [stage |-> "stt", heardAgent |-> heardAgent])

\* processUtterance up to the await of speechToText, or up to its return
processUtterance(heardAgent) ==
    IF bridge.isProcessing
    THEN /\ utterances' = Append(utterances, [stage |-> "skipped", heardAgent |-> heardAgent])
         /\ bridge' = bridge
    ELSE /\ bridge' = [bridge EXCEPT !.isProcessing = TRUE]
         /\ utterances' = Append(utterances, [stage |-> "stt", heardAgent |-> heardAgent])

\* the session is stored and announced, and startVoiceCheckin awaits bridge.greet()
InitListening ==
    /\ EngineIdle
    /\ HandlerIdle
    /\ CheckinIdle
    /\ activeSessions = [g \in Guilds |-> TheSession]
    /\ \E developerId \in BOOLEAN :
         starts = [s \in StartCalls |->
                     IF s = TheSession
                     THEN [pc |-> "greeting", connection |-> "ready", bridgeCreated |-> TRUE,
                           greeted |-> FALSE, developerId |-> developerId]
                     ELSE NotStartedCall]
    /\ endCalls = <<>>
    /\ endWork = [s \in StartCalls |-> NoEndWork]
    /\ bridge = [NewBridge EXCEPT !.greet = "llm"]
    /\ utterances = <<>>
    /\ player = "idle"
    /\ capture = NoCapture

\* getGreeting settled: an empty greeting or an error ends greet(), and
\* startVoiceCheckin goes on to startListening
GreetingGenerated(outcome) ==
    /\ bridge.greet = "llm"
    /\ IF outcome = "text"
       THEN /\ bridge' = [bridge EXCEPT !.greet = "tts",
                                        !.conversationHistory = Append(@, "assistant")]
            /\ starts' = [starts EXCEPT ![TheSession].greeted = TRUE]
       ELSE /\ bridge' = [bridge EXCEPT !.greet = IF outcome = "empty" THEN "done" ELSE "failed"]
            /\ starts' = [starts EXCEPT ![TheSession].pc = "listening"]
    /\ UNCHANGED <<activeSessions, endCalls, endWork, utterances, player, capture>>
    /\ UNCHANGED <<engineVars, handlerVars, checkinVars>>

\* textToSpeechStream of the greeting settled: onAgentAudio hands the audio
\* to player.play(), which returns at once, and startListening runs
GreetingSpoken(outcome) ==
    /\ bridge.greet = "tts"
    /\ bridge' = [bridge EXCEPT !.greet = IF outcome = "error" THEN "failed" ELSE "done"]
    /\ player' = IF outcome = "audio" THEN "playing" ELSE player
    /\ starts' = [starts EXCEPT ![TheSession].pc = "listening"]
    /\ UNCHANGED <<activeSessions, endCalls, endWork, utterances, capture>>
    /\ UNCHANGED <<engineVars, handlerVars, checkinVars>>

\* the audio player played its resource to the end
PlaybackFinished ==
    /\ player = "playing"
    /\ player' = "idle"
    /\ UNCHANGED <<activeSessions, starts, endCalls, endWork, bridge, utterances, capture>>
    /\ UNCHANGED <<engineVars, handlerVars, checkinVars>>

\* speaking "start" of the user of the session while the bridge is not busy
SpeakingStart ==
    /\ starts[TheSession].pc = "listening"
    /\ Len(utterances) < MaxUtterances
    /\ ~capture.open
    /\ ~bridge.isProcessing
    /\ capture' = [open |-> TRUE, heardAgent |-> player = "playing"]
    /\ UNCHANGED <<activeSessions, starts, endCalls, endWork, bridge, utterances, player>>
    /\ UNCHANGED <<engineVars, handlerVars, checkinVars>>

\* "end" of the recording after two seconds of silence
SpeakingEnd(longEnough) ==
    /\ capture.open
    /\ capture' = NoCapture
    /\ IF longEnough /\ ~bridge.isProcessing
       THEN processUtterance(capture.heardAgent)
       ELSE UNCHANGED <<bridge, utterances>>
    /\ UNCHANGED <<activeSessions, starts, endCalls, endWork, player>>
    /\ UNCHANGED <<engineVars, handlerVars, checkinVars>>

\* a call of the public method by any caller
CallProcessUtterance ==
    /\ Len(utterances) < MaxUtterances
    /\ processUtterance(FALSE)
    /\ UNCHANGED <<activeSessions, starts, endCalls, endWork, player, capture>>
    /\ UNCHANGED <<engineVars, handlerVars, checkinVars>>

\* speechToText settled
SpeechToTextAnswered(i, outcome) ==
    /\ i \in DOMAIN utterances
    /\ utterances[i].stage = "stt"
    /\ IF outcome = "text"
       THEN /\ bridge' = [bridge EXCEPT !.conversationHistory = Append(@, "user")]
            /\ utterances' = [utterances EXCEPT ![i].stage = "llm"]
       ELSE /\ bridge' = [bridge EXCEPT !.isProcessing = FALSE]
            /\ utterances' = [utterances EXCEPT
                                 ![i].stage = IF outcome = "error" THEN "error" ELSE "no transcript"]
    /\ UNCHANGED <<activeSessions, starts, endCalls, endWork, player, capture>>
    /\ UNCHANGED <<engineVars, handlerVars, checkinVars>>

\* getLLMResponse settled
LlmAnswered(i, outcome) ==
    /\ i \in DOMAIN utterances
    /\ utterances[i].stage = "llm"
    /\ IF outcome = "text"
       THEN /\ bridge' = [bridge EXCEPT !.conversationHistory = Append(@, "assistant")]
            /\ utterances' = [utterances EXCEPT ![i].stage = "tts"]
       ELSE /\ bridge' = [bridge EXCEPT !.isProcessing = FALSE]
            /\ utterances' = [utterances EXCEPT
                                 ![i].stage = IF outcome = "error" THEN "error" ELSE "no response"]
    /\ UNCHANGED <<activeSessions, starts, endCalls, endWork, player, capture>>
    /\ UNCHANGED <<engineVars, handlerVars, checkinVars>>

\* textToSpeechStream of the reply settled; the reply starts to play and
\* the finally block clears isProcessing
TextToSpeechSettled(i, outcome) ==
    /\ i \in DOMAIN utterances
    /\ utterances[i].stage = "tts"
    /\ bridge' = [bridge EXCEPT !.isProcessing = FALSE]
    /\ utterances' = [utterances EXCEPT
                         ![i].stage = IF outcome = "error" THEN "error" ELSE "finished"]
    /\ player' = IF outcome = "audio" THEN "playing" ELSE player
    /\ capture' = IF capture.open /\ outcome = "audio"
                  THEN [capture EXCEPT !.heardAgent = TRUE]
                  ELSE capture
    /\ UNCHANGED <<activeSessions, starts, endCalls, endWork>>
    /\ UNCHANGED <<engineVars, handlerVars, checkinVars>>

SttOutcomes == {"error", "empty", "short", "text"}

LlmOutcomes == {"error", "empty", "text"}

TtsOutcomes == {"error", "no audio", "audio"}

\* the awaits of a running pipeline settle
PipelineStep ==
    \/ \E i \in 1..MaxUtterances, outcome \in SttOutcomes : SpeechToTextAnswered(i, outcome)
    \/ \E i \in 1..MaxUtterances, outcome \in LlmOutcomes : LlmAnswered(i, outcome)
    \/ \E i \in 1..MaxUtterances, outcome \in TtsOutcomes : TextToSpeechSettled(i, outcome)

GreetStep ==
    \/ \E outcome \in LlmOutcomes : GreetingGenerated(outcome)
    \/ \E outcome \in TtsOutcomes : GreetingSpoken(outcome)

NextListening ==
    \/ GreetStep
    \/ PlaybackFinished
    \/ SpeakingStart
    \/ \E longEnough \in BOOLEAN : SpeakingEnd(longEnough)
    \/ PipelineStep

SpecListening == InitListening /\ [][NextListening]_vars

NextBridge ==
    \/ GreetStep
    \/ PlaybackFinished
    \/ CallProcessUtterance
    \/ PipelineStep

\* every call to an external service settles: the requests resolve or
\* reject, and textToSpeechStream resolves after thirty seconds at the latest
SpecBridge == InitListening /\ [][NextBridge]_vars /\ WF_vars(PipelineStep)

\* C23: no recording of the user that was open while a pipeline was running or
\* while the agent's greeting or reply was playing is submitted to processUtterance
C23_NoRecordingWhileAgentSpeaks ==
    \A i \in DOMAIN utterances : ~utterances[i].heardAgent

\* C23, the part the busy flag does establish: no recording is opened or
\* submitted while a pipeline is in flight
C23_NoRecordingWhilePipelineRuns ==
    [][/\ (~capture.open /\ capture'.open) => InFlight = {}
       /\ Len(utterances') > Len(utterances) => InFlight = {}]_vars

\* C30: at most one processUtterance pipeline is in flight; a call made while
\* one is in flight is skipped and leaves the conversation history as it is,
\* a call made while none is in flight is accepted; isProcessing is false
\* whenever no pipeline is in flight, and a busy bridge is eventually not busy
C30_OnePipelineInFlight ==
    /\ [](Cardinality(InFlight) <= 1)
    /\ [](InFlight = {} => ~bridge.isProcessing)
    /\ [][Len(utterances') > Len(utterances) =>
            IF InFlight # {}
            THEN /\ utterances'[Len(utterances')].stage = "skipped"
                 /\ bridge' = bridge
            ELSE utterances'[Len(utterances')].stage = "stt"]_vars
    /\ (bridge.isProcessing ~> ~bridge.isProcessing)

\* C30: a call was skipped while an earlier one was in flight, that one left
\* through an exit, and a later call was accepted
C30_Witness ==
    /\ Len(utterances) = 3
    /\ utterances[1].stage \in {"no transcript", "no response", "error", "finished"}
    /\ utterances[2].stage = "skipped"
    /\ utterances[3].stage \in InFlightStages
    /\ bridge.isProcessing

====
